---- MODULE Spec2Model ----
(***************************************************************************)
(* A model of the blackbox exporter's probe engine:                        *)
(*   - probeHandler (main.go), the orchestrator that validates a request,  *)
(*     runs one prober into a buffered metric channel, appends the two     *)
(*     orchestrator metrics, renders the channel and feeds the registry;   *)
(*   - probeTCP (tcp.go), the scripted expect/send exchange, one action    *)
(*     per statement group of the function;                                *)
(*   - probeHTTP, whose source is not part of the tree: it is modelled     *)
(*     from section 4.2 of the specification.                              *)
(* Text is abstracted to sequences of tokens: a line "PING :a" is          *)
(* <<"PING", "a">>, the template "PONG ${1}" is <<"PONG", "${1}">>.        *)
(* Floats are fixed-point integers in thousandths (Milli).                 *)
(***************************************************************************)
EXTENDS Integers, Sequences, FiniteSets, TLC

(***************************************************************************)
(* Bounds of the model.                                                    *)
(***************************************************************************)
\* lines (complete or unterminated) the peer delivers on one TCP connection
MaxLines == 3

(***************************************************************************)
(* Program constants.                                                      *)
(***************************************************************************)
\* main.go:122  metrics := make(chan Metric, 30)
ChanCap == 30
\* main.go:126,128  nanoseconds / 1e6 = milliseconds, latency / 1e3 = seconds
Milli == 1000
\* main.go:104,112,117  http.Error(w, ..., 400)
StatusBadRequest == 400

(***************************************************************************)
(* Regular expressions over token sequences (regexp.Compile,               *)
(* FindSubmatchIndex, Expand as probeTCP uses them).                       *)
(***************************************************************************)
Lit(t) == [kind |-> "lit", tok |-> t, cap |-> FALSE]
\* [^ ]+ : one token, captured when cap
Word(c) == [kind |-> "word", tok |-> "", cap |-> c]
\* :[^ ]+ : one token that starts with a colon
ColonWord == [kind |-> "colon", tok |-> "", cap |-> FALSE]

ColonTokens == {":srv"}

\* Compile that accepts every source, as the empty pattern when it is
\* not one it knows
CompileLenient(src) ==
  CASE src = "^SSH-2.0-"      -> [err |-> FALSE, anchored |-> TRUE,  elems |-> <<Lit("SSH-2.0-")>>]
    [] src = "PING :([^ ]+)"  -> [err |-> FALSE, anchored |-> FALSE, elems |-> <<Lit("PING"), Word(TRUE)>>]
    [] src = "^:[^ ]+ 001"    -> [err |-> FALSE, anchored |-> TRUE,  elems |-> <<ColonWord, Lit("001")>>]
    [] src = "Could not connect to database"
                              -> [err |-> FALSE, anchored |-> FALSE, elems |-> <<Lit("dberror")>>]
    [] src = "Download the latest version here"
                              -> [err |-> FALSE, anchored |-> FALSE, elems |-> <<Lit("download")>>]
    [] OTHER                  -> [err |-> FALSE, anchored |-> FALSE, elems |-> <<>>]

\* regexp.Compile on the pattern sources the configurations use
Compile(src) ==
  CASE src = "^SSH-2.0-"      -> [err |-> FALSE, anchored |-> TRUE,  elems |-> <<Lit("SSH-2.0-")>>]
    [] src = "PING :([^ ]+)"  -> [err |-> FALSE, anchored |-> FALSE, elems |-> <<Lit("PING"), Word(TRUE)>>]
    [] src = "^:[^ ]+ 001"    -> [err |-> FALSE, anchored |-> TRUE,  elems |-> <<ColonWord, Lit("001")>>]
    [] src = "Could not connect to database"
                              -> [err |-> FALSE, anchored |-> FALSE, elems |-> <<Lit("dberror")>>]
    [] src = "Download the latest version here"
                              -> [err |-> FALSE, anchored |-> FALSE, elems |-> <<Lit("download")>>]
    [] OTHER                  -> [err |-> TRUE,  anchored |-> FALSE, elems |-> <<>>]

ElemMatches(e, t) ==
  CASE e.kind = "lit"   -> t = e.tok
    [] e.kind = "word"  -> TRUE
    [] e.kind = "colon" -> t \in ColonTokens

\* the pattern's elements match the line's tokens from position p on
MatchesAt(re, line, p) ==
  /\ p + Len(re.elems) - 1 <= Len(line)
  /\ \A j \in 1..Len(re.elems) : ElemMatches(re.elems[j], line[p + j - 1])

MatchPositions(re, line) ==
  {p \in 1..(IF re.anchored THEN 1 ELSE Len(line)) : MatchesAt(re, line, p)}

Min(S) == CHOOSE x \in S : \A y \in S : x <= y

\* the positions in the line of the tokens the capture groups matched
RECURSIVE Captures(_, _, _)
Captures(re, p, j) ==
  IF j > Len(re.elems) THEN <<>>
  ELSE (IF re.elems[j].cap THEN <<p + j - 1>> ELSE <<>>)
       \o Captures(re, p, j + 1)

\* a nil []int
NoMatch == [found |-> FALSE, at |-> 0, idx |-> <<>>]

\* re.FindSubmatchIndex: the leftmost match as indices into the line, or nil
FindSubmatchIndex(re, line) ==
  IF MatchPositions(re, line) = {} THEN NoMatch
  ELSE LET p == Min(MatchPositions(re, line))
       IN [found |-> TRUE, at |-> p, idx |-> Captures(re, p, 1)]

\* GroupRef that takes no token for a placeholder
GroupRefNone(t) == 0

\* the capture group a template token ${n} names, 0 for any other token
GroupRef(t) ==
  CASE t = "${1}" -> 1
    [] t = "${2}" -> 2
    [] OTHER      -> 0

\* Expand that returns the template as it stands
ExpandVerbatim(template, src, m) == template

\* re.Expand(nil, template, src, match): ${n} becomes the text of src that the
\* n-th capture group of match covers, or nothing when there is no such group
RECURSIVE Expand(_, _, _)
Expand(template, src, m) ==
  IF template = <<>> THEN <<>>
  ELSE LET t == Head(template)
           n == GroupRef(t)
       IN (IF n = 0 THEN <<t>>
           ELSE IF n <= Len(m.idx) /\ m.idx[n] <= Len(src) THEN <<src[m.idx[n]]>>
           ELSE <<>>)
          \o Expand(Tail(template), src, m)

(***************************************************************************)
(* The configuration model (main.go: Config, Module, HTTPProbe,            *)
(* QueryResponse, TCPProbe) and the configuration of the README.           *)
(***************************************************************************)
QueryResponse(expect, send) == [Expect |-> expect, Send |-> send]

HTTPProbe(codes, nofollow, failSSL, failNotSSL, failIf, failIfNot) ==
  [ValidStatusCodes |-> codes, NoFollowRedirects |-> nofollow,
   FailIfSSL |-> failSSL, FailIfNotSSL |-> failNotSSL,
   FailIfMatchesRegexp |-> failIf, FailIfNotMatchesRegexp |-> failIfNot]

\* the zero value of HTTPProbe
NoHTTP == HTTPProbe(<<>>, FALSE, FALSE, FALSE, <<>>, <<>>)

Module(prober, http, steps) ==
  [Prober |-> prober, HTTP |-> http, TCP |-> [QueryResponse |-> steps]]

IRCSteps ==
  << QueryResponse("", <<"NICK", "prober">>),
     QueryResponse("", <<"USER", "prober">>),
     QueryResponse("PING :([^ ]+)", <<"PONG", "${1}">>),
     QueryResponse("^:[^ ]+ 001", <<>>) >>

SSHSteps == << QueryResponse("^SSH-2.0-", <<>>) >>

\* README.md, "Configuration": the example modules, and one module whose
\* prober key is not registered
ConfigModules ==
  [n \in {"http_2xx", "tcp_connect", "ssh_banner", "irc_banner", "icmp", "dns_lookup"} |->
     CASE n = "http_2xx"    -> Module("http",
                                 HTTPProbe(<<>>, FALSE, FALSE, FALSE,
                                           <<"Could not connect to database">>,
                                           <<"Download the latest version here">>),
                                 <<>>)
       [] n = "tcp_connect" -> Module("tcp", NoHTTP, <<>>)
       [] n = "ssh_banner"  -> Module("tcp", NoHTTP, SSHSteps)
       [] n = "irc_banner"  -> Module("tcp", NoHTTP, IRCSteps)
       [] n = "icmp"        -> Module("icmp", NoHTTP, <<>>)
       [] n = "dns_lookup"  -> Module("dns", NoHTTP, <<>>)]

Config == [Modules |-> ConfigModules]

\* the query parameters a request can carry
Targets == {"", "example.org"}
ModuleParams == {"", "nosuch"} \cup DOMAIN ConfigModules

\* main.go:93  var Probers: the entry point of each registered prober
Probers == [k \in {"http", "tcp", "icmp"} |->
              CASE k = "http" -> "http_request"
                [] k = "tcp"  -> "tcp_dial"
                [] k = "icmp" -> "icmp_echo"]

Metric(name, value) == [Name |-> name, FloatValue |-> value]

\* a float64 as fixed-point thousandths
Float(n) == n * Milli

SuccessLabels == {"true", "false"}
Labels == (DOMAIN ConfigModules \cup {"http2xx"}) \X SuccessLabels

(***************************************************************************)
(* State.                                                                  *)
(***************************************************************************)
VARIABLES
  pc,            \* where the request being handled stands
  params,        \* r.URL.Query(): the request's target and module parameters
  target, moduleName, module,   \* probeHandler's locals
  metrics,       \* the buffer of the channel  metrics
  chClosed,      \* close(metrics) has run
  success, successString, latency,
  w,             \* the http.ResponseWriter: error status and lines written
  registry,      \* probeLatencies, probeHistogram, probeCounter by label pair
  emitted,       \* history: the metrics the prober sent, in order
  probersRun     \* history: prober invocations of this request

VARIABLES
  conn,          \* "none", "open" or "closed"
  deadlineSet,   \* conn.SetDeadline succeeded
  expired,       \* the instant  deadline  has passed
  qi,            \* index of the query/response entry being processed
  re, match, send,   \* probeTCP's locals
  scanbuf,       \* lines the scanner has buffered and not yet returned
  serr,          \* the scanner's sticky read error: "none", "eof", "timeout", "error"
  tok,           \* scanner.Bytes()
  nlines,        \* lines the peer has delivered so far
  iolog,         \* history: reads and writes on the connection, in order
  stepsDone,     \* history: entries whose iteration ran to its end, in order
  ret,           \* the prober's return value
  now,           \* the clock, in ticks
  deadline       \* probeTCP's local  deadline  (tcp.go:14); 0 before it is computed

VARIABLES
  resp,          \* the response the HTTP client returned, or NoResp
  redirects,     \* redirects the client followed
  statusOK, regexOK, tlsOK,   \* the verdicts of the three checks
  bodyState,     \* the response body: "none", "open" or "closed"
  served         \* history: the redirect hops and final response the target served

hvars == <<pc, params, target, moduleName, module, metrics, chClosed, success,
           successString, latency, w, registry, emitted, probersRun>>
tvars == <<conn, deadlineSet, expired, qi, re, match, send, scanbuf, serr, tok,
           nlines, iolog, stepsDone, ret, now, deadline>>
tvars_but_ret == <<conn, deadlineSet, expired, qi, re, match, send, scanbuf, serr,
                   tok, nlines, iolog, stepsDone, now, deadline>>
hvars_but_pc == <<params, target, moduleName, module, metrics, chClosed, success,
                  successString, latency, w, registry, emitted, probersRun>>
xvars == <<resp, redirects, statusOK, regexOK, tlsOK, bodyState, served>>

VARIABLES
  reqs,          \* the frames of the handler goroutines serving requests at once
  envlog,        \* history: what the peer and the clock did to this probe, in order
  first          \* history: the environment and the outcome of an earlier, equal probe

aux == <<reqs, envlog, first>>
vars == <<hvars, tvars, xvars, aux>>

NoRegexp == [err |-> FALSE, anchored |-> FALSE, elems |-> <<>>]
NoModule == Module("", NoHTTP, <<>>)
NoResponse == [code |-> 0, error |-> "", body |-> <<>>]
EmptyRegistry ==
  [summary |-> [l \in Labels |-> 0], histogram |-> [l \in Labels |-> 0],
   counter |-> [l \in Labels |-> 0]]

\* the prober-local state at the start of an invocation
TCPFresh ==
  /\ conn = "none" /\ deadlineSet = FALSE /\ expired = FALSE /\ qi = 0
  /\ re = NoRegexp /\ match = NoMatch /\ send = <<>> /\ scanbuf = <<>>
  /\ serr = "none" /\ tok = <<>> /\ nlines = 0 /\ iolog = <<>>
  /\ stepsDone = <<>> /\ ret = FALSE /\ deadline = 0

TCPReset ==
  /\ conn' = "none" /\ deadlineSet' = FALSE /\ expired' = FALSE /\ qi' = 0
  /\ re' = NoRegexp /\ match' = NoMatch /\ send' = <<>> /\ scanbuf' = <<>>
  /\ serr' = "none" /\ tok' = <<>> /\ nlines' = 0 /\ iolog' = <<>>
  /\ stepsDone' = <<>> /\ ret' = FALSE /\ deadline' = 0 /\ now' = now

NoResp == [StatusCode |-> 0, ContentLength |-> 0, Body |-> <<>>, TLS |-> FALSE,
           Certs |-> <<>>]

NoServed == [hops |-> 0, final |-> NoResp]

HTTPFresh ==
  /\ resp = NoResp /\ redirects = 0 /\ served = NoServed
  /\ statusOK = FALSE /\ regexOK = TRUE /\ tlsOK = TRUE /\ bodyState = "none"

HTTPReset ==
  /\ resp' = NoResp /\ redirects' = 0 /\ served' = NoServed
  /\ statusOK' = FALSE /\ regexOK' = TRUE /\ tlsOK' = TRUE /\ bodyState' = "none"

\* the requests net/http serves at once, each in a goroutine of its own
Reqs == {"r1", "r2"}

\* no earlier probe
NoFirst == [run |-> 0, env |-> <<>>, ret |-> FALSE, names |-> <<>>, latency |-> 0]

\* probeHandler's locals before the request is read
IdleFrame ==
  [pc |-> "idle", target |-> "", moduleName |-> "", metrics |-> <<>>,
   chClosed |-> FALSE, success |-> FALSE, successString |-> "", latency |-> 0,
   w |-> NoResponse, sent |-> <<>>]

Init ==
  /\ reqs = [r \in Reqs |-> IdleFrame] /\ envlog = <<>> /\ first = NoFirst
  /\ now = 0
  /\ pc = "idle"
  /\ params = [target |-> "", module |-> ""]
  /\ target = "" /\ moduleName = "" /\ module = NoModule
  /\ metrics = <<>> /\ chClosed = FALSE
  /\ success = FALSE /\ successString = "" /\ latency = 0
  /\ w = NoResponse
  /\ registry = EmptyRegistry
  /\ emitted = <<>> /\ probersRun = 0
  /\ TCPFresh
  /\ HTTPFresh

(***************************************************************************)
(* probeHandler (main.go:99-147).                                          *)
(***************************************************************************)
\* main.go:107-109
DefaultModule == "http2xx"

EffectiveModule(m) == IF m = "" THEN DefaultModule ELSE m

\* Validate without the check of the target parameter
ValidateAnyTarget(t, m) ==
  IF EffectiveModule(m) \notin DOMAIN Config.Modules THEN "Unkown module"
  ELSE IF Config.Modules[EffectiveModule(m)].Prober \notin DOMAIN Probers
       THEN "Unkown prober"
  ELSE ""

\* main.go:103-119: the error a request is rejected with, "" when it is accepted
Validate(t, m) ==
  IF t = "" THEN "Target parameter is missing"
  ELSE IF EffectiveModule(m) \notin DOMAIN Config.Modules THEN "Unkown module"
  ELSE IF Config.Modules[EffectiveModule(m)].Prober \notin DOMAIN Probers
       THEN "Unkown prober"
  ELSE ""

\* main.go:99-125: the request is read and validated; an accepted request gets
\* a fresh channel and enters its prober
Request(t, m) ==
  /\ pc = "idle"
  /\ params' = [target |-> t, module |-> m]
  /\ target' = t
  /\ metrics' = <<>> /\ chClosed' = FALSE
  /\ UNCHANGED <<success, successString, latency, registry, emitted, tvars, xvars>>
  /\ IF Validate(t, m) # ""
       THEN /\ w' = [code |-> StatusBadRequest, error |-> Validate(t, m), body |-> <<>>]
            /\ moduleName' = (IF t = "" THEN m ELSE EffectiveModule(m))
            /\ module' = NoModule
            /\ probersRun' = 0
            /\ pc' = "done"
       ELSE /\ w' = NoResponse
            /\ moduleName' = EffectiveModule(m)
            /\ module' = Config.Modules[EffectiveModule(m)]
            /\ probersRun' = 1
            /\ pc' = Probers[Config.Modules[EffectiveModule(m)].Prober]

\* a sink with room for a single metric
CanSendOneSlot == Len(metrics) < 1 /\ ~chClosed
\* a send on the buffered channel: it blocks while the buffer is full
CanSend == Len(metrics) < ChanCap /\ ~chClosed

\* elapsed times of a probe, in milliseconds
Latencies == {0, 250}

\* SuccessValue reporting success whatever the prober returned
SuccessValueAlwaysOne(ok) == Float(1)

\* main.go:130-136: the value and the label of probe_success
SuccessValue(ok) == IF ok THEN Float(1) ELSE Float(0)

\* SuccessLabel labelling every probe as a success
SuccessLabelAlwaysTrue(ok) == "true"

SuccessLabel(ok) == IF ok THEN "true" ELSE "false"

\* OrchestratorMetrics with the two sends in the opposite order
OrchestratorMetricsSwapped(lat, ok) ==
  << Metric("probe_success", SuccessValue(ok)),
     Metric("probe_duration_seconds", lat \div Milli) >>

\* main.go:128-136: the two metrics the handler sends after the prober
\* returned, in the order of the sends
OrchestratorMetrics(lat, ok) ==
  << Metric("probe_duration_seconds", lat \div Milli),
     Metric("probe_success", SuccessValue(ok)) >>

\* main.go:126-128
SendDuration ==
  /\ pc = "h_duration"
  /\ CanSend
  /\ \E ms \in Latencies :
       /\ latency' = Float(ms)
       /\ metrics' = Append(metrics, OrchestratorMetrics(Float(ms), success)[1])
  /\ pc' = "h_success"
  /\ UNCHANGED <<params, target, moduleName, module, chClosed, success, successString,
                 w, registry, emitted, probersRun, tvars, xvars>>

\* main.go:129-136
SendSuccess ==
  /\ pc = "h_success"
  /\ CanSend
  /\ metrics' = Append(metrics, OrchestratorMetrics(latency, success)[2])
  /\ successString' = SuccessLabel(success)
  /\ pc' = "h_close"
  /\ UNCHANGED <<params, target, moduleName, module, chClosed, success, latency,
                 w, registry, emitted, probersRun, tvars, xvars>>

\* main.go:139
CloseMetrics ==
  /\ pc = "h_close"
  /\ chClosed' = TRUE
  /\ pc' = "h_drain"
  /\ UNCHANGED <<params, target, moduleName, module, metrics, success, successString,
                 latency, w, registry, emitted, probersRun, tvars, xvars>>

\* main.go:141  fmt.Fprintf(w, "%s %f\n", ...): one line of the response
Render(m) == <<m.Name, m.FloatValue>>

\* Drain that takes the newest metric of the buffer first
DrainNewestFirst ==
  /\ pc = "h_drain"
  /\ IF metrics # <<>>
       THEN /\ w' = [w EXCEPT !.body = Append(@, Render(metrics[Len(metrics)]))]
            /\ metrics' = SubSeq(metrics, 1, Len(metrics) - 1)
            /\ pc' = "h_drain"
       ELSE /\ chClosed
            /\ pc' = "h_summary"
            /\ UNCHANGED <<w, metrics>>
  /\ UNCHANGED <<params, target, moduleName, module, chClosed, success, successString,
                 latency, registry, emitted, probersRun, tvars, xvars>>

\* main.go:140-142: one turn of the range loop; it ends when the closed
\* channel is empty
Drain ==
  /\ pc = "h_drain"
  /\ IF metrics # <<>>
       THEN /\ w' = [w EXCEPT !.body = Append(@, Render(Head(metrics)))]
            /\ metrics' = Tail(metrics)
            /\ pc' = "h_drain"
       ELSE /\ chClosed
            /\ pc' = "h_summary"
            /\ UNCHANGED <<w, metrics>>
  /\ UNCHANGED <<params, target, moduleName, module, chClosed, success, successString,
                 latency, registry, emitted, probersRun, tvars, xvars>>

\* WithLabelValues(moduleName, successString)
LabelPair == <<moduleName, successString>>

\* main.go:144
ObserveSummary ==
  /\ pc = "h_summary"
  /\ registry' = [registry EXCEPT !.summary[LabelPair] = @ + 1]
  /\ pc' = "h_histogram"
  /\ UNCHANGED <<params, target, moduleName, module, metrics, chClosed, success,
                 successString, latency, w, emitted, probersRun, tvars, xvars>>

\* main.go:145
ObserveHistogram ==
  /\ pc = "h_histogram"
  /\ registry' = [registry EXCEPT !.histogram[LabelPair] = @ + 1]
  /\ pc' = "h_counter"
  /\ UNCHANGED <<params, target, moduleName, module, metrics, chClosed, success,
                 successString, latency, w, emitted, probersRun, tvars, xvars>>

\* main.go:146-147
IncCounter ==
  /\ pc = "h_counter"
  /\ registry' = [registry EXCEPT !.counter[LabelPair] = @ + 1]
  /\ pc' = "done"
  /\ UNCHANGED <<params, target, moduleName, module, metrics, chClosed, success,
                 successString, latency, w, emitted, probersRun, tvars, xvars>>

(***************************************************************************)
(* probeTCP (tcp.go:13-62).  The peer and the clock are the environment:   *)
(* whether the dial and the deadline call succeed, what each read of the   *)
(* connection returns, whether a write succeeds, and when the deadline     *)
(* instant passes.                                                         *)
(***************************************************************************)
\* lines a peer may send
TCPLines ==
  { <<"SSH-2.0-", "OpenSSH">>,
    <<"PING", "a">>,
    <<"NOTICE", "PING", "b">>,
    <<":srv", "001">>,
    <<"NOTICE", ":srv", "001">> }

\* the non-empty sequences of at most n lines
Chunks(n) == UNION {[1..k -> TCPLines] : k \in 1..n}

Steps == module.TCP.QueryResponse

\* TimedOut for a connection that never times out
TimedOutNever == FALSE

\* an operation on the connection fails with a timeout once the deadline that
\* was set on it has passed
TimedOut == deadlineSet /\ expired

TCPPCs == {"tcp_deadline", "tcp_loop", "tcp_compile", "tcp_scan", "tcp_checkscan", "tcp_send"}

\* the prober returns r: control reaches the deferred conn.Close()
TCPExit(r) == ret' = r /\ pc' = "tcp_return"

\* module.Timeout, in ticks
Timeout == 2

\* TCPDial with the deadline computed when the dial has returned
TCPDialThenDeadline ==
  /\ pc = "tcp_dial"
  /\ \E d \in 0..Timeout :
       /\ now' = now + d
       /\ deadline' = now + d + Timeout
  /\ \E ok \in BOOLEAN :
       IF ok THEN conn' = "open" /\ pc' = "tcp_deadline" /\ UNCHANGED ret
             ELSE conn' = "none" /\ TCPExit(FALSE)
  /\ UNCHANGED xvars
  /\ UNCHANGED <<hvars_but_pc, deadlineSet, expired, qi, re, match, send, scanbuf,
                 serr, tok, nlines, iolog, stepsDone>>

\* tcp.go:14-19: the deadline is computed, then the dial takes some time, at
\* most the timeout it is given
TCPDial ==
  /\ pc = "tcp_dial"
  /\ deadline' = now + Timeout
  /\ \E d \in 0..Timeout : now' = now + d
  /\ \E ok \in BOOLEAN :
       IF ok THEN conn' = "open" /\ pc' = "tcp_deadline" /\ UNCHANGED ret
             ELSE conn' = "none" /\ TCPExit(FALSE)
  /\ UNCHANGED xvars
  /\ UNCHANGED <<hvars_but_pc, deadlineSet, expired, qi, re, match, send, scanbuf,
                 serr, tok, nlines, iolog, stepsDone>>

\* tcp.go:23-26
TCPSetDeadline ==
  /\ pc = "tcp_deadline"
  /\ \E ok \in BOOLEAN :
       IF ok THEN /\ deadlineSet' = TRUE /\ qi' = 1 /\ pc' = "tcp_loop"
                  /\ UNCHANGED ret
             ELSE /\ TCPExit(FALSE) /\ UNCHANGED <<deadlineSet, qi>>
  /\ UNCHANGED xvars
  /\ UNCHANGED <<hvars_but_pc, conn, expired, re, match, send, scanbuf,
                 serr, tok, nlines, iolog, stepsDone>>
  /\ UNCHANGED <<now, deadline>>

\* TCPLoop that reports the number of completed entries before it returns
TCPLoopSendsMetric ==
  /\ pc = "tcp_loop"
  /\ IF qi > Len(Steps)
       THEN /\ TCPExit(TRUE)
            /\ metrics' = Append(metrics, Metric("probe_tcp_steps", Float(Len(stepsDone))))
            /\ emitted' = Append(emitted, Metric("probe_tcp_steps", Float(Len(stepsDone))))
            /\ UNCHANGED send
       ELSE /\ send' = Steps[qi].Send
            /\ pc' = (IF Steps[qi].Expect # "" THEN "tcp_compile" ELSE "tcp_send")
            /\ UNCHANGED <<ret, metrics, emitted>>
  /\ UNCHANGED xvars
  /\ UNCHANGED <<params, target, moduleName, module, chClosed, success, successString,
                 latency, w, registry, probersRun>>
  /\ UNCHANGED <<conn, deadlineSet, expired, qi, re, match, scanbuf,
                 serr, tok, nlines, iolog, stepsDone>>
  /\ UNCHANGED <<now, deadline>>

\* tcp.go:27-30 and 61: the head of the range loop over the entries
TCPLoop ==
  /\ pc = "tcp_loop"
  /\ IF qi > Len(Steps)
       THEN TCPExit(TRUE) /\ UNCHANGED send
       ELSE /\ send' = Steps[qi].Send
            /\ pc' = (IF Steps[qi].Expect # "" THEN "tcp_compile" ELSE "tcp_send")
            /\ UNCHANGED ret
  /\ UNCHANGED xvars
  /\ UNCHANGED <<hvars_but_pc, conn, deadlineSet, expired, qi, re, match, scanbuf,
                 serr, tok, nlines, iolog, stepsDone>>
  /\ UNCHANGED <<now, deadline>>

\* TCPCompile in which compiling the same pattern may fail one time and
\* succeed another
TCPCompileUnstable ==
  /\ pc = "tcp_compile"
  /\ \E err \in {Compile(Steps[qi].Expect).err, TRUE} :
       IF err
         THEN TCPExit(FALSE) /\ UNCHANGED <<re, match>>
         ELSE /\ re' = Compile(Steps[qi].Expect)
              /\ match' = NoMatch
              /\ pc' = "tcp_scan"
              /\ UNCHANGED ret
  /\ UNCHANGED xvars
  /\ UNCHANGED <<hvars_but_pc, conn, deadlineSet, expired, qi, send, scanbuf,
                 serr, tok, nlines, iolog, stepsDone>>
  /\ UNCHANGED <<now, deadline>>

\* tcp.go:31-36
TCPCompile ==
  /\ pc = "tcp_compile"
  /\ IF Compile(Steps[qi].Expect).err
       THEN TCPExit(FALSE) /\ UNCHANGED <<re, match>>
       ELSE /\ re' = Compile(Steps[qi].Expect)
            /\ match' = NoMatch
            /\ pc' = "tcp_scan"
            /\ UNCHANGED ret
  /\ UNCHANGED xvars
  /\ UNCHANGED <<hvars_but_pc, conn, deadlineSet, expired, qi, send, scanbuf,
                 serr, tok, nlines, iolog, stepsDone>>
  /\ UNCHANGED <<now, deadline>>

\* a token the scanner returned: late when the connection delivered it after
\* the deadline instant; end is "none" for a terminated line, otherwise what
\* ended the stream behind an unterminated one
ScanEvent(line, late, end) ==
  [op |-> "scan", step |-> qi, data |-> line, late |-> late, end |-> end]
WriteEvent(text) ==
  [op |-> "write", step |-> qi, data |-> text, late |-> expired, end |-> "none"]

\* scanner.Scan() returned true with the token line (tcp.go:38-44)
ScanToken(line, late, end) ==
  /\ tok' = line
  /\ match' = FindSubmatchIndex(re, line)
  /\ iolog' = Append(iolog, ScanEvent(line, late, end))
  /\ pc' = (IF FindSubmatchIndex(re, line).found THEN "tcp_checkscan" ELSE "tcp_scan")

\* scanner.Scan() returned false (tcp.go:38)
ScanStops ==
  /\ pc' = "tcp_checkscan"
  /\ UNCHANGED <<tok, match, iolog>>

\* the read of the connection ended the stream: the scanner keeps the error
\* and returns what is left of an unterminated last line as the final token
ScanEnd(kind, frag) ==
  /\ serr' = kind
  /\ UNCHANGED scanbuf
  /\ IF frag = <<>>
       THEN ScanStops /\ UNCHANGED nlines
       ELSE ScanToken(frag, expired, kind) /\ nlines' = nlines + 1

\* a reader that hands out a buffered line without consuming it
TCPScanKeepsLine ==
  /\ pc = "tcp_scan"
  /\ IF scanbuf # <<>>
       THEN /\ ScanToken(Head(scanbuf).line, Head(scanbuf).late, "none")
            /\ UNCHANGED <<scanbuf, serr, nlines>>
     ELSE IF serr # "none"
       THEN ScanStops /\ UNCHANGED <<scanbuf, serr, nlines>>
     ELSE IF TimedOut
       THEN \E frag \in {<<>>} \cup (IF nlines < MaxLines THEN TCPLines ELSE {}) :
              ScanEnd("timeout", frag)
     ELSE \/ \E chunk \in Chunks(MaxLines - nlines) :
               /\ ScanToken(Head(chunk), expired, "none")
               /\ scanbuf' = [i \in 1..(Len(chunk) - 1) |->
                                [line |-> chunk[i + 1], late |-> expired]]
               /\ nlines' = nlines + Len(chunk)
               /\ UNCHANGED serr
          \/ \E kind \in {"eof", "error"} :
             \E frag \in {<<>>} \cup (IF nlines < MaxLines THEN TCPLines ELSE {}) :
               ScanEnd(kind, frag)
  /\ UNCHANGED xvars
  /\ UNCHANGED <<hvars_but_pc, conn, deadlineSet, expired, qi, re, send, stepsDone, ret>>
  /\ UNCHANGED <<now, deadline>>

\* tcp.go:38-45: one turn of the scan loop
TCPScan ==
  /\ pc = "tcp_scan"
  /\ IF scanbuf # <<>>
       THEN /\ ScanToken(Head(scanbuf).line, Head(scanbuf).late, "none")
            /\ scanbuf' = Tail(scanbuf)
            /\ UNCHANGED <<serr, nlines>>
     ELSE IF serr # "none"
       THEN ScanStops /\ UNCHANGED <<scanbuf, serr, nlines>>
     ELSE IF TimedOut
       THEN \E frag \in {<<>>} \cup (IF nlines < MaxLines THEN TCPLines ELSE {}) :
              ScanEnd("timeout", frag)
     ELSE \/ \E chunk \in Chunks(MaxLines - nlines) :
               /\ ScanToken(Head(chunk), expired, "none")
               /\ scanbuf' = [i \in 1..(Len(chunk) - 1) |->
                                [line |-> chunk[i + 1], late |-> expired]]
               /\ nlines' = nlines + Len(chunk)
               /\ UNCHANGED serr
          \/ \E kind \in {"eof", "error"} :
             \E frag \in {<<>>} \cup (IF nlines < MaxLines THEN TCPLines ELSE {}) :
               ScanEnd(kind, frag)
  /\ UNCHANGED xvars
  /\ UNCHANGED <<hvars_but_pc, conn, deadlineSet, expired, qi, re, send, stepsDone, ret>>
  /\ UNCHANGED <<now, deadline>>

\* scanner.Err(): the sticky error, io.EOF excepted
ScannerErr == serr \notin {"none", "eof"}

\* TCPCheckScan without the test of  match == nil
TCPCheckScanIgnoresNoMatch ==
  /\ pc = "tcp_checkscan"
  /\ IF ScannerErr THEN TCPExit(FALSE) /\ UNCHANGED send
     ELSE /\ send' = Expand(send, tok, match)
          /\ pc' = "tcp_send"
          /\ UNCHANGED ret
  /\ UNCHANGED xvars
  /\ UNCHANGED <<hvars_but_pc, conn, deadlineSet, expired, qi, re, match, scanbuf,
                 serr, tok, nlines, iolog, stepsDone>>
  /\ UNCHANGED <<now, deadline>>

\* tcp.go:46-53
TCPCheckScan ==
  /\ pc = "tcp_checkscan"
  /\ IF ScannerErr THEN TCPExit(FALSE) /\ UNCHANGED send
     ELSE IF ~match.found THEN TCPExit(FALSE) /\ UNCHANGED send
     ELSE /\ send' = Expand(send, tok, match)
          /\ pc' = "tcp_send"
          /\ UNCHANGED ret
  /\ UNCHANGED xvars
  /\ UNCHANGED <<hvars_but_pc, conn, deadlineSet, expired, qi, re, match, scanbuf,
                 serr, tok, nlines, iolog, stepsDone>>
  /\ UNCHANGED <<now, deadline>>

\* WithNewline that adds nothing to the text
WithoutNewline(text) == text

\* fmt.Fprintf(conn, "%s\n", send): the text and one newline
WithNewline(text) == Append(text, "\n")

\* TCPSend that goes on to the next entry when the write failed
TCPSendIgnoresWriteError ==
  /\ pc = "tcp_send"
  /\ IF send # <<>>
       THEN \E ok \in BOOLEAN :
              /\ ok => ~TimedOut
              /\ iolog' = (IF ok THEN Append(iolog, WriteEvent(WithNewline(send)))
                                 ELSE iolog)
       ELSE UNCHANGED iolog
  /\ stepsDone' = Append(stepsDone, qi)
  /\ qi' = qi + 1
  /\ pc' = "tcp_loop"
  /\ UNCHANGED <<ret, xvars>>
  /\ UNCHANGED <<hvars_but_pc, conn, deadlineSet, expired, re, match, send, scanbuf,
                 serr, tok, nlines>>
  /\ UNCHANGED <<now, deadline>>

\* tcp.go:54-60
TCPSend ==
  /\ pc = "tcp_send"
  /\ IF send # <<>>
       THEN \E ok \in BOOLEAN :
              /\ ok => ~TimedOut
              /\ IF ok THEN /\ iolog' = Append(iolog, WriteEvent(WithNewline(send)))
                            /\ stepsDone' = Append(stepsDone, qi)
                            /\ qi' = qi + 1
                            /\ pc' = "tcp_loop"
                            /\ UNCHANGED ret
                       ELSE /\ TCPExit(FALSE)
                            /\ UNCHANGED <<iolog, stepsDone, qi>>
       ELSE /\ stepsDone' = Append(stepsDone, qi)
            /\ qi' = qi + 1
            /\ pc' = "tcp_loop"
            /\ UNCHANGED <<iolog, ret>>
  /\ UNCHANGED xvars
  /\ UNCHANGED <<hvars_but_pc, conn, deadlineSet, expired, re, match, send, scanbuf,
                 serr, tok, nlines>>
  /\ UNCHANGED <<now, deadline>>

\* TCPClose that releases the connection only when the probe succeeded
TCPCloseOnSuccessOnly ==
  /\ pc = "tcp_return"
  /\ conn' = (IF conn = "open" /\ ret THEN "closed" ELSE conn)
  /\ pc' = "tcp_returned"
  /\ UNCHANGED <<hvars_but_pc, deadlineSet, expired, qi, re, match, send, scanbuf,
                 serr, tok, nlines, iolog, stepsDone, ret, xvars>>
  /\ UNCHANGED <<now, deadline>>

\* tcp.go:19: the deferred conn.Close() runs on the way out, when the dial
\* had succeeded
TCPClose ==
  /\ pc = "tcp_return"
  /\ conn' = (IF conn = "open" THEN "closed" ELSE conn)
  /\ pc' = "tcp_returned"
  /\ UNCHANGED <<hvars_but_pc, deadlineSet, expired, qi, re, match, send, scanbuf,
                 serr, tok, nlines, iolog, stepsDone, ret, xvars>>
  /\ UNCHANGED <<now, deadline>>

\* main.go:125  success := prober(target, module, metrics): probeTCP's result
\* reaches the handler and its locals are gone
TCPReturn ==
  /\ pc = "tcp_returned"
  /\ success' = ret
  /\ pc' = "h_duration"
  /\ TCPReset
  /\ UNCHANGED <<params, target, moduleName, module, metrics, chClosed, successString,
                 latency, w, registry, emitted, probersRun, xvars>>

\* the clock passes the instant  deadline  (tcp.go:14)
DeadlinePasses ==
  /\ pc \in TCPPCs
  /\ ~expired
  /\ expired' = TRUE
  /\ now' = deadline + 1
  /\ UNCHANGED <<hvars, conn, deadlineSet, qi, re, match, send, scanbuf, serr, tok,
                 nlines, iolog, stepsDone, ret, deadline>>
  /\ UNCHANGED xvars

(***************************************************************************)
(* probeHTTP.  Its source is not in the tree (only its tests are); the     *)
(* steps below follow section 4.2 of the specification, one action per     *)
(* numbered step.                                                          *)
(***************************************************************************)
\* 4.2 step 3: the most redirect hops the client follows
MaxRedirects == 10

\* what the target serves: hops redirects (302) and then the final response
Statuses == {199, 200, 299, 300, 404}
Bodies == { <<>>, <<"dberror">>, <<"download">>, <<"dberror", "download">> }
Hops == {0, 1, MaxRedirects, MaxRedirects + 1}
\* NotAfter of the certificates of an encrypted peer; 0 is the zero time
PeerCerts == <<0, 7, 3>>
StatusFound == 302

Response(code, body, tls, certs) ==
  [StatusCode |-> code, ContentLength |-> Len(body), Body |-> body, TLS |-> tls,
   Certs |-> certs]

\* StatusCheck that accepts the 2xx range besides the configured codes
StatusCheckAlso2xx(cfg, code) ==
  \/ \E i \in 1..Len(cfg.ValidStatusCodes) : cfg.ValidStatusCodes[i] = code
  \/ 200 <= code /\ code < 300

\* 4.2 step 6
StatusCheck(cfg, code) ==
  IF cfg.ValidStatusCodes # <<>>
    THEN \E i \in 1..Len(cfg.ValidStatusCodes) : cfg.ValidStatusCodes[i] = code
    ELSE 200 <= code /\ code < 300

\* a pattern matches the body; a malformed pattern is reported as malformed
BodyMatches(pattern, body) == FindSubmatchIndex(Compile(pattern), body).found
Malformed(pattern) == Compile(pattern).err

\* RegexCheck that stops at the first pattern of each list
RegexCheckFirstOnly(cfg, body) ==
  /\ cfg.FailIfMatchesRegexp # <<>> =>
       /\ ~Malformed(cfg.FailIfMatchesRegexp[1])
       /\ ~BodyMatches(cfg.FailIfMatchesRegexp[1], body)
  /\ cfg.FailIfNotMatchesRegexp # <<>> =>
       /\ ~Malformed(cfg.FailIfNotMatchesRegexp[1])
       /\ BodyMatches(cfg.FailIfNotMatchesRegexp[1], body)

\* 4.2 step 7: failure if any fail_if_matches pattern matches the body or any
\* fail_if_not_matches pattern fails to match; a malformed pattern fails
RegexCheck(cfg, body) ==
  /\ \A i \in 1..Len(cfg.FailIfMatchesRegexp) :
       /\ ~Malformed(cfg.FailIfMatchesRegexp[i])
       /\ ~BodyMatches(cfg.FailIfMatchesRegexp[i], body)
  /\ \A i \in 1..Len(cfg.FailIfNotMatchesRegexp) :
       /\ ~Malformed(cfg.FailIfNotMatchesRegexp[i])
       /\ BodyMatches(cfg.FailIfNotMatchesRegexp[i], body)

\* TLSCheck without the fail_if_not_ssl rule
TLSCheckIgnoresNotSSL(cfg, tls) == tls => ~cfg.FailIfSSL

\* 4.2 step 8
TLSCheck(cfg, tls) == IF tls THEN ~cfg.FailIfSSL ELSE ~cfg.FailIfNotSSL

SSLValue(tls) == IF tls THEN Float(1) ELSE Float(0)

\* 4.2 step 8: the soonest NotAfter among the certificates with a non-zero expiry
EarliestExpiry(certs) ==
  Min({certs[i] : i \in {j \in 1..Len(certs) : certs[j] # 0}})

\* the prober sends the metrics ms into the sink, in order
Emit(ms) ==
  /\ Len(metrics) + Len(ms) <= ChanCap
  /\ ~chClosed
  /\ metrics' = metrics \o ms
  /\ emitted' = emitted \o ms

HTTPExit(r) == ret' = r /\ pc' = "http_return"

\* HTTPRequest whose client follows redirects whatever the module says
HTTPRequestAlwaysFollows ==
  /\ pc = "http_request"
  /\ \/ /\ HTTPExit(FALSE)
        /\ UNCHANGED <<resp, redirects, bodyState, served>>
     \/ \E hops \in Hops, code \in Statuses, body \in Bodies, tls \in BOOLEAN :
          LET certs == IF tls THEN PeerCerts ELSE <<>> IN
          /\ served' = [hops |-> hops, final |-> Response(code, body, tls, certs)]
          /\ IF hops > MaxRedirects
               THEN /\ HTTPExit(FALSE)
                    /\ UNCHANGED <<resp, redirects, bodyState>>
               ELSE /\ resp' = Response(code, body, tls, certs)
                    /\ redirects' = hops
                    /\ bodyState' = "open"
                    /\ pc' = "http_metrics"
                    /\ UNCHANGED ret
  /\ UNCHANGED <<hvars_but_pc, tvars_but_ret, statusOK, regexOK, tlsOK>>

\* 4.2 steps 1-4: the request is issued; the client follows redirects as the
\* policy says and hands back a response, or fails without one
HTTPRequest ==
  /\ pc = "http_request"
  /\ \/ /\ HTTPExit(FALSE)
        /\ UNCHANGED <<resp, redirects, bodyState, served>>
     \/ \E hops \in Hops, code \in Statuses, body \in Bodies, tls \in BOOLEAN :
          LET certs == IF tls THEN PeerCerts ELSE <<>> IN
          /\ served' = [hops |-> hops, final |-> Response(code, body, tls, certs)]
          /\ IF module.HTTP.NoFollowRedirects /\ hops > 0
               THEN /\ resp' = Response(StatusFound, <<>>, tls, certs)
                    /\ redirects' = 0
                    /\ bodyState' = "open"
                    /\ pc' = "http_metrics"
                    /\ UNCHANGED ret
             ELSE IF hops > MaxRedirects
               THEN /\ HTTPExit(FALSE)
                    /\ UNCHANGED <<resp, redirects, bodyState>>
             ELSE /\ resp' = Response(code, body, tls, certs)
                  /\ redirects' = hops
                  /\ bodyState' = "open"
                  /\ pc' = "http_metrics"
                  /\ UNCHANGED ret
  /\ UNCHANGED <<hvars_but_pc, tvars_but_ret, statusOK, regexOK, tlsOK>>

\* 4.2 step 5
HTTPMetrics ==
  /\ pc = "http_metrics"
  /\ Emit(<< Metric("probe_http_status_code", Float(resp.StatusCode)),
             Metric("probe_http_content_length", Float(resp.ContentLength)),
             Metric("probe_http_redirects", Float(redirects)) >>)
  /\ pc' = "http_status"
  /\ UNCHANGED <<params, target, moduleName, module, chClosed, success, successString,
                 latency, w, registry, probersRun, tvars, xvars>>

\* HTTPStatus that returns at once when the status check fails
HTTPStatusShortCircuit ==
  /\ pc = "http_status"
  /\ statusOK' = StatusCheck(module.HTTP, resp.StatusCode)
  /\ IF StatusCheck(module.HTTP, resp.StatusCode)
       THEN pc' = "http_body" /\ UNCHANGED ret
       ELSE HTTPExit(FALSE)
  /\ UNCHANGED <<hvars_but_pc, tvars_but_ret, resp, redirects, regexOK, tlsOK, bodyState, served>>

\* 4.2 step 6
HTTPStatus ==
  /\ pc = "http_status"
  /\ statusOK' = StatusCheck(module.HTTP, resp.StatusCode)
  /\ pc' = (IF StatusCheck(module.HTTP, resp.StatusCode) THEN "http_body" ELSE "http_tls")
  /\ UNCHANGED <<hvars_but_pc, tvars, resp, redirects, regexOK, tlsOK, bodyState, served>>

\* HTTPBody that evaluates the body without reporting its length
HTTPBodySilent ==
  /\ pc = "http_body"
  /\ regexOK' = RegexCheck(module.HTTP, resp.Body)
  /\ pc' = "http_tls"
  /\ UNCHANGED <<hvars_but_pc, tvars>>
  /\ UNCHANGED <<resp, redirects, statusOK, tlsOK, bodyState, served>>

\* 4.2 step 7
HTTPBody ==
  /\ pc = "http_body"
  /\ Emit(<< Metric("probe_http_actual_content_length", Float(Len(resp.Body))) >>)
  /\ regexOK' = RegexCheck(module.HTTP, resp.Body)
  /\ pc' = "http_tls"
  /\ UNCHANGED <<params, target, moduleName, module, chClosed, success, successString,
                 latency, w, registry, probersRun, tvars>>
  /\ UNCHANGED <<resp, redirects, statusOK, tlsOK, bodyState, served>>

\* 4.2 step 8
HTTPTLS ==
  /\ pc = "http_tls"
  /\ Emit(IF resp.TLS
            THEN << Metric("probe_http_ssl", SSLValue(TRUE)),
                    Metric("probe_ssl_earliest_cert_expiry",
                           Float(EarliestExpiry(resp.Certs))) >>
            ELSE << Metric("probe_http_ssl", SSLValue(FALSE)) >>)
  /\ tlsOK' = TLSCheck(module.HTTP, resp.TLS)
  /\ ret' = (statusOK /\ regexOK /\ TLSCheck(module.HTTP, resp.TLS))
  /\ pc' = "http_return"
  /\ UNCHANGED <<params, target, moduleName, module, chClosed, success, successString,
                 latency, w, registry, probersRun>>
  /\ UNCHANGED <<tvars_but_ret, resp, redirects, statusOK, regexOK, bodyState, served>>

\* section 5: the response body is released on the way out
HTTPClose ==
  /\ pc = "http_return"
  /\ bodyState' = (IF bodyState = "open" THEN "closed" ELSE bodyState)
  /\ pc' = "http_returned"
  /\ UNCHANGED <<hvars_but_pc, tvars, resp, redirects, statusOK, regexOK, tlsOK, served>>

\* main.go:125  success := prober(target, module, metrics): probeHTTP's result
\* reaches the handler and its locals are gone
HTTPReturn ==
  /\ pc = "http_returned"
  /\ success' = ret
  /\ pc' = "h_duration"
  /\ HTTPReset
  /\ ret' = FALSE
  /\ UNCHANGED <<params, target, moduleName, module, metrics, chClosed, successString,
                 latency, w, registry, emitted, probersRun, tvars_but_ret>>

(***************************************************************************)
(* probeICMP.  Its source is not in the tree; section 4.4: one echo        *)
(* request, success iff a valid reply arrives before the deadline.         *)
(***************************************************************************)
ICMPEcho ==
  /\ pc = "icmp_echo"
  /\ \E reply \in BOOLEAN : success' = reply
  /\ pc' = "h_duration"
  /\ UNCHANGED <<params, target, moduleName, module, metrics, chClosed, successString,
                 latency, w, registry, emitted, probersRun, tvars, xvars>>

(***************************************************************************)
(* Specifications.                                                         *)
(***************************************************************************)
HandlerStep ==
  \/ \E t \in Targets, m \in ModuleParams : Request(t, m)
  \/ SendDuration
  \/ SendSuccess
  \/ CloseMetrics
  \/ Drain
  \/ ObserveSummary
  \/ ObserveHistogram
  \/ IncCounter

TCPStep ==
  \/ TCPDial
  \/ TCPSetDeadline
  \/ TCPLoop
  \/ TCPCompile
  \/ TCPScan
  \/ TCPCheckScan
  \/ TCPSend
  \/ TCPClose
  \/ TCPReturn
  \/ DeadlinePasses

HTTPStep ==
  \/ HTTPRequest
  \/ HTTPMetrics
  \/ HTTPStatus
  \/ HTTPBody
  \/ HTTPTLS
  \/ HTTPClose
  \/ HTTPReturn

Next == (HandlerStep \/ TCPStep \/ HTTPStep \/ ICMPEcho) /\ UNCHANGED aux

\* the exporter serving requests with the README's configuration
Spec == Init /\ [][Next]_vars

(***************************************************************************)
(* Requests served at once.  net/http runs probeHandler in one goroutine   *)
(* per request; each has its own locals (a frame of reqs) and they share   *)
(* the configuration and the registry.  A prober runs inside its frame and *)
(* is seen here by what it leaves behind: the metrics it sent and the bool *)
(* it returned.                                                            *)
(***************************************************************************)
ConcModuleParams == {"", "http_2xx", "tcp_connect"}

\* everything but the frames and the registry
single == <<pc, params, target, moduleName, module, metrics, chClosed, success,
            successString, latency, w, emitted, probersRun, tvars, xvars,
            envlog, first>>

\* what one invocation of a prober may leave behind
ProberRuns(m) ==
  IF m.Prober = "http"
    THEN {[ok |-> FALSE, metrics |-> <<>>]} \cup
         { [ok |-> StatusCheck(m.HTTP, code),
            metrics |->
              << Metric("probe_http_status_code", Float(code)),
                 Metric("probe_http_content_length", Float(0)),
                 Metric("probe_http_redirects", Float(0)) >> \o
              (IF StatusCheck(m.HTTP, code)
                 THEN << Metric("probe_http_actual_content_length", Float(0)) >>
                 ELSE <<>>) \o
              << Metric("probe_http_ssl", SSLValue(FALSE)) >>] : code \in {200, 404} }
    ELSE {[ok |-> b, metrics |-> <<>>] : b \in BOOLEAN}

\* main.go:99-122 in the frame r
CRequest(r, t, m) ==
  /\ reqs[r].pc = "idle"
  /\ reqs' = [reqs EXCEPT ![r] =
       IF Validate(t, m) # ""
         THEN [@ EXCEPT !.target = t,
                        !.moduleName = (IF t = "" THEN m ELSE EffectiveModule(m)),
                        !.w = [code |-> StatusBadRequest, error |-> Validate(t, m),
                               body |-> <<>>],
                        !.pc = "done"]
         ELSE [@ EXCEPT !.target = t, !.moduleName = EffectiveModule(m),
                        !.pc = "probing"]]
  /\ UNCHANGED <<single, registry>>

\* main.go:125
CProbe(r) ==
  /\ reqs[r].pc = "probing"
  /\ \E run \in ProberRuns(Config.Modules[reqs[r].moduleName]) :
       reqs' = [reqs EXCEPT ![r] =
                 [@ EXCEPT !.metrics = run.metrics, !.sent = run.metrics,
                           !.success = run.ok, !.pc = "h_duration"]]
  /\ UNCHANGED <<single, registry>>

CCanSend(r) == Len(reqs[r].metrics) < ChanCap /\ ~reqs[r].chClosed

\* CSendDuration with one sink for all requests: the send may land in the
\* buffer of another request
CSendDurationIntoAnySink(r) ==
  /\ reqs[r].pc = "h_duration"
  /\ CCanSend(r)
  /\ \E ms \in Latencies, q \in Reqs :
       LET m == OrchestratorMetrics(Float(ms), reqs[r].success)[1]
           mine == [reqs[r] EXCEPT !.latency = Float(ms), !.sent = Append(@, m),
                                   !.pc = "h_success"]
       IN /\ ~reqs[q].chClosed
          /\ reqs' = [[reqs EXCEPT ![r] = mine] EXCEPT ![q].metrics = Append(@, m)]
  /\ UNCHANGED <<single, registry>>

\* main.go:126-128
CSendDuration(r) ==
  /\ reqs[r].pc = "h_duration"
  /\ CCanSend(r)
  /\ \E ms \in Latencies :
       LET m == OrchestratorMetrics(Float(ms), reqs[r].success)[1] IN
       reqs' = [reqs EXCEPT ![r] =
                 [@ EXCEPT !.latency = Float(ms), !.metrics = Append(@, m),
                           !.sent = Append(@, m), !.pc = "h_success"]]
  /\ UNCHANGED <<single, registry>>

\* main.go:129-136
CSendSuccess(r) ==
  /\ reqs[r].pc = "h_success"
  /\ CCanSend(r)
  /\ LET m == OrchestratorMetrics(reqs[r].latency, reqs[r].success)[2] IN
     reqs' = [reqs EXCEPT ![r] =
               [@ EXCEPT !.metrics = Append(@, m), !.sent = Append(@, m),
                         !.successString = SuccessLabel(reqs[r].success),
                         !.pc = "h_close"]]
  /\ UNCHANGED <<single, registry>>

\* main.go:139
CCloseMetrics(r) ==
  /\ reqs[r].pc = "h_close"
  /\ reqs' = [reqs EXCEPT ![r] = [@ EXCEPT !.chClosed = TRUE, !.pc = "h_drain"]]
  /\ UNCHANGED <<single, registry>>

\* main.go:140-142
CDrain(r) ==
  /\ reqs[r].pc = "h_drain"
  /\ IF reqs[r].metrics # <<>>
       THEN reqs' = [reqs EXCEPT ![r] =
              [@ EXCEPT !.w.body = Append(@, Render(Head(reqs[r].metrics))),
                        !.metrics = Tail(@)]]
       ELSE /\ reqs[r].chClosed
            /\ reqs' = [reqs EXCEPT ![r].pc = "h_summary"]
  /\ UNCHANGED <<single, registry>>

CLabelPair(r) == <<reqs[r].moduleName, reqs[r].successString>>

\* main.go:144
CObserveSummary(r) ==
  /\ reqs[r].pc = "h_summary"
  /\ registry' = [registry EXCEPT !.summary[CLabelPair(r)] = @ + 1]
  /\ reqs' = [reqs EXCEPT ![r].pc = "h_histogram"]
  /\ UNCHANGED single

\* main.go:145
CObserveHistogram(r) ==
  /\ reqs[r].pc = "h_histogram"
  /\ registry' = [registry EXCEPT !.histogram[CLabelPair(r)] = @ + 1]
  /\ reqs' = [reqs EXCEPT ![r].pc = "h_counter"]
  /\ UNCHANGED single

\* main.go:146-147
CIncCounter(r) ==
  /\ reqs[r].pc = "h_counter"
  /\ registry' = [registry EXCEPT !.counter[CLabelPair(r)] = @ + 1]
  /\ reqs' = [reqs EXCEPT ![r].pc = "done"]
  /\ UNCHANGED single

ConcStep ==
  \E r \in Reqs :
    \/ \E t \in Targets, m \in ConcModuleParams : CRequest(r, t, m)
    \/ CProbe(r)
    \/ CSendDuration(r)
    \/ CSendSuccess(r)
    \/ CCloseMetrics(r)
    \/ CDrain(r)
    \/ CObserveSummary(r)
    \/ CObserveHistogram(r)
    \/ CIncCounter(r)

\* the exporter serving the requests of Reqs at once
SpecConc == Init /\ [][ConcStep]_vars

(***************************************************************************)
(* probeTCP on its own, over a wider set of query/response scripts.        *)
(***************************************************************************)
\* an entry whose expect does not compile, between two sends
BadRegexSteps ==
  << QueryResponse("", <<"HELLO">>),
     QueryResponse("(", <<"X">>),
     QueryResponse("", <<"BYE">>) >>

\* a placeholder in the send of an entry without expect
VerbatimSteps == << QueryResponse("", <<"PONG", "${1}">>) >>

\* the same expect twice in a row
TwiceSteps ==
  << QueryResponse("PING :([^ ]+)", <<"PONG", "${1}">>),
     QueryResponse("PING :([^ ]+)", <<"PONG", "${1}">>) >>

\* a template that expands to nothing, followed by a plain send
EmptyExpansionSteps ==
  << QueryResponse("^SSH-2.0-", <<"${1}">>),
     QueryResponse("", <<"DONE">>) >>

TCPScripts ==
  { <<>>, SSHSteps, IRCSteps, BadRegexSteps, VerbatimSteps, TwiceSteps,
    EmptyExpansionSteps }

\* the instants at which the probe may be called
StartTimes == {0, 1}

InitTCP ==
  /\ reqs = [r \in Reqs |-> IdleFrame] /\ envlog = <<>> /\ first = NoFirst
  /\ now \in StartTimes
  /\ pc = "tcp_dial"
  /\ params = [target |-> "example.org", module |-> "tcp"]
  /\ target = "example.org" /\ moduleName = "tcp"
  /\ module \in {Module("tcp", NoHTTP, st) : st \in TCPScripts}
  /\ metrics = <<>> /\ chClosed = FALSE
  /\ success = FALSE /\ successString = "" /\ latency = 0
  /\ w = NoResponse
  /\ registry = EmptyRegistry
  /\ emitted = <<>> /\ probersRun = 1
  /\ TCPFresh
  /\ HTTPFresh

\* one invocation of probeTCP, from its call to its return
SpecTCP == InitTCP /\ [][TCPStep /\ UNCHANGED aux]_vars

(***************************************************************************)
(* The same probe run twice against a target that behaves the same.  The   *)
(* first run records what the environment did (envlog); the second run is  *)
(* offered exactly that again.  Elapsed time is not part of the target's   *)
(* behaviour and is free in both runs.                                     *)
(***************************************************************************)
\* one thing the environment did
EnvEvent(ev, ok, line, buf, err) ==
  [ev |-> ev, ok |-> ok, tok |-> line, buf |-> buf, err |-> err]

\* the environment does c; in the second run it is what it did in the first
Logged(c) ==
  /\ envlog' = Append(envlog, c)
  /\ first.run = 1 =>
       /\ Len(envlog) < Len(first.env)
       /\ first.env[Len(envlog) + 1] = c
  /\ UNCHANGED <<first, reqs>>

\* the dial: whether it connected and, in tok, the ticks it took
TwDial ==
  TCPDial /\ Logged(EnvEvent("dial", conn' = "open", <<now' - now>>, <<>>, ""))

TwSetDeadline ==
  TCPSetDeadline /\ Logged(EnvEvent("setdeadline", deadlineSet', <<>>, <<>>, ""))

\* the lines this target sends
TwiceLines == { <<"SSH-2.0-", "OpenSSH">>, <<"PING", "a">> }

\* what the read handed to the scanner: the token, the lines buffered behind
\* it and the error that ended the stream
TwScan ==
  /\ TCPScan
  /\ nlines' > nlines => tok' \in TwiceLines
  /\ \A i \in 1..Len(scanbuf') : scanbuf'[i].line \in TwiceLines
  /\ Logged(EnvEvent("read", nlines' > nlines,
                             IF nlines' > nlines \/ scanbuf # <<>> THEN tok' ELSE <<>>,
                             scanbuf', serr'))

TwSend ==
  TCPSend /\ Logged(EnvEvent("write", send = <<>> \/ Len(iolog') > Len(iolog),
                             <<>>, <<>>, ""))

TwDeadlinePasses == DeadlinePasses /\ Logged(EnvEvent("deadline", TRUE, <<>>, <<>>, ""))

\* the steps in which the environment has no say
TwInternal ==
  /\ \/ TCPLoop
     \/ TCPCompile
     \/ TCPCheckScan
     \/ TCPClose
     \/ TCPReturn
     \/ SendDuration
     \/ SendSuccess
     \/ CloseMetrics
     \/ Drain
     \/ ObserveSummary
     \/ ObserveHistogram
     \/ IncCounter
  /\ UNCHANGED aux

Names(body) == [i \in 1..Len(body) |-> body[i][1]]

\* the same request arrives again and passes the same validation
Again ==
  /\ pc = "done"
  /\ first.run = 0
  /\ first' = [run |-> 1, env |-> envlog, ret |-> success, names |-> Names(w.body),
               latency |-> latency]
  /\ envlog' = <<>>
  /\ w' = NoResponse
  /\ metrics' = <<>> /\ chClosed' = FALSE
  /\ emitted' = <<>>
  /\ probersRun' = 1
  /\ success' = FALSE /\ successString' = "" /\ latency' = 0
  /\ pc' = Probers[module.Prober]
  /\ UNCHANGED <<params, target, moduleName, module, registry, tvars, xvars, reqs>>

TwiceStep ==
  \/ TwDial
  \/ TwSetDeadline
  \/ TwScan
  \/ TwSend
  \/ TwDeadlinePasses
  \/ TwInternal
  \/ Again

TwiceScripts == { <<>>, SSHSteps, EmptyExpansionSteps, BadRegexSteps }

InitTwice ==
  /\ InitTCP
  /\ now = 0
  /\ module.TCP.QueryResponse \in TwiceScripts

\* two equal TCP probes, one after the other
SpecTwice == InitTwice /\ [][TwiceStep]_vars

(***************************************************************************)
(* probeHandler after a prober that may have sent any metrics: the handler *)
(* tail (main.go:126-147) over whatever the sink holds when the prober     *)
(* returns.                                                                *)
(***************************************************************************)
\* the most metrics the prober has sent
MaxEmitted == 3

\* metrics a prober may send: one name twice with two values, and another
SinkMetrics ==
  { Metric("probe_a", Float(1)), Metric("probe_a", Float(2)), Metric("probe_b", Float(1)) }

SinkContents == UNION {[1..n -> SinkMetrics] : n \in 0..MaxEmitted}

InitSink ==
  /\ reqs = [r \in Reqs |-> IdleFrame] /\ envlog = <<>> /\ first = NoFirst
  /\ now = 0
  /\ pc = "h_duration"
  /\ params = [target |-> "example.org", module |-> "http_2xx"]
  /\ target = "example.org" /\ moduleName = "http_2xx"
  /\ module = ConfigModules["http_2xx"]
  /\ metrics \in SinkContents /\ emitted = metrics
  /\ chClosed = FALSE
  /\ success \in BOOLEAN /\ successString = "" /\ latency = 0
  /\ w = NoResponse
  /\ registry = EmptyRegistry
  /\ probersRun = 1
  /\ TCPFresh
  /\ HTTPFresh

SinkStep ==
  \/ SendDuration
  \/ SendSuccess
  \/ CloseMetrics
  \/ Drain
  \/ ObserveSummary
  \/ ObserveHistogram
  \/ IncCounter

\* the handler from the return of the prober to its own
SpecSink == InitSink /\ [][SinkStep /\ UNCHANGED aux]_vars

(***************************************************************************)
(* probeHTTP on its own, over a range of module options.                   *)
(***************************************************************************)
CodeLists == { <<>>, <<200, 404>>, <<302>> }
PatternLists ==
  { <<>>,
    <<"Could not connect to database", "Download the latest version here">>,
    <<"(">> }

HTTPConfigs ==
  { HTTPProbe(codes, nofollow, failSSL, failNotSSL, failIf, failIfNot) :
      codes \in CodeLists, nofollow \in BOOLEAN, failSSL \in BOOLEAN,
      failNotSSL \in BOOLEAN, failIf \in PatternLists, failIfNot \in PatternLists }

InitHTTP ==
  /\ reqs = [r \in Reqs |-> IdleFrame] /\ envlog = <<>> /\ first = NoFirst
  /\ now = 0
  /\ pc = "http_request"
  /\ params = [target |-> "example.org", module |-> "http"]
  /\ target = "example.org" /\ moduleName = "http"
  /\ module \in {Module("http", c, <<>>) : c \in HTTPConfigs}
  /\ metrics = <<>> /\ chClosed = FALSE
  /\ success = FALSE /\ successString = "" /\ latency = 0
  /\ w = NoResponse
  /\ registry = EmptyRegistry
  /\ emitted = <<>> /\ probersRun = 1
  /\ TCPFresh
  /\ HTTPFresh

\* one invocation of probeHTTP, from its call to its return
SpecHTTP == InitHTTP /\ [][HTTPStep /\ UNCHANGED aux]_vars

(***************************************************************************)
(* Properties of probeHandler.                                             *)
(***************************************************************************)
\* the request has a target, names (or defaults to) a configured module, and
\* that module names a registered prober
Accepted ==
  LET name == IF params.module = "" THEN DefaultModule ELSE params.module
  IN /\ params.target # ""
     /\ name \in DOMAIN ConfigModules
     /\ ConfigModules[name].Prober \in {"http", "tcp", "icmp"}

OrchestratorNames == {"probe_duration_seconds", "probe_success"}

LinesNamed(name) == {i \in 1..Len(w.body) : w.body[i][1] = name}

\* C1: for every accepted request the rendered lines are the prober's metrics
\* followed by exactly probe_duration_seconds and then probe_success, and the
\* prober never emits either of the two names.
C1_OrchestratorMetricsLast ==
  /\ \A i \in 1..Len(emitted) : emitted[i].Name \notin OrchestratorNames
  /\ (pc = "done" /\ Accepted) =>
       LET n == Len(w.body)
       IN /\ n = Len(emitted) + 2
          /\ \A i \in 1..Len(emitted) : w.body[i][1] = emitted[i].Name
          /\ w.body[n - 1][1] = "probe_duration_seconds"
          /\ w.body[n][1] = "probe_success"

\* an accepted request whose prober emitted metrics has been rendered
C1_Witness == pc = "done" /\ Accepted /\ Len(emitted) >= 4

\* C2: an accepted request never gets an error response and never gets stuck;
\* when it is done its output holds exactly one probe_success line, 1 if the
\* prober returned true and 0 if it returned false, a probe_duration_seconds
\* line and every metric the prober emitted.
C2_FailureIsReportedNotRaised ==
  (pc # "idle" /\ Accepted) =>
    /\ w.code = 0 /\ w.error = ""
    /\ pc # "done" => ENABLED Next
    /\ pc = "done" =>
         /\ Cardinality(LinesNamed("probe_success")) = 1
         /\ \A i \in LinesNamed("probe_success") :
              w.body[i][2] = (IF success THEN 1 * Milli ELSE 0)
         /\ LinesNamed("probe_duration_seconds") # {}
         /\ \A i \in 1..Len(emitted) :
              w.body[i] = <<emitted[i].Name, emitted[i].FloatValue>>

\* a failed probe that had emitted metrics before it failed has been rendered
C2_Witness == pc = "done" /\ Accepted /\ ~success /\ emitted # <<>>

\* C3: a request without target, with an unknown module or with a module of
\* an unregistered prober ends at once with status 400: no prober ran, no
\* line was written, nothing was sent or observed, no connection was made.
C3_ClientErrorsRejected ==
  (pc # "idle" /\ ~Accepted) =>
    /\ pc = "done"
    /\ w.code = StatusBadRequest
    /\ w.body = <<>>
    /\ probersRun = 0
    /\ metrics = <<>> /\ emitted = <<>>
    /\ registry = EmptyRegistry
    /\ conn = "none" /\ iolog = <<>> /\ bodyState = "none"

\* a request for a module whose prober is not registered has been rejected
C3_Witness ==
  /\ pc = "done" /\ w.code = StatusBadRequest
  /\ params.target # "" /\ params.module = "dns_lookup"

(***************************************************************************)
(* Properties of probeTCP.                                                 *)
(***************************************************************************)
EventsOf(i, op) == {k \in 1..Len(iolog) : iolog[k].step = i /\ iolog[k].op = op}

\* the pattern src compiles and matches the line
LineMatches(src, line) ==
  ~Compile(src).err /\ MatchPositions(Compile(src), line) # {}

\* the tokens of entry i that matched its expect and were whole lines or the
\* last line before the end of the stream (not a remainder cut off by the
\* deadline or by a read error)
Hits(i) ==
  {k \in EventsOf(i, "scan") :
     /\ LineMatches(Steps[i].Expect, iolog[k].data)
     /\ iolog[k].end \notin {"timeout", "error"}}

\* the text entry i has to send: its send as it stands without expect,
\* otherwise the template expanded on the line that matched
TextOf(i) ==
  IF Steps[i].Expect = "" THEN Steps[i].Send
  ELSE IF Hits(i) = {} THEN <<>>
  ELSE LET line == iolog[Min(Hits(i))].data
       IN Expand(Steps[i].Send, line, FindSubmatchIndex(Compile(Steps[i].Expect), line))

\* entry i is complete: its expect, if any, compiled and was matched, and its
\* text, if any, was written
StepCompleted(i) ==
  /\ Steps[i].Expect # "" => (~Compile(Steps[i].Expect).err /\ Hits(i) # {})
  /\ TextOf(i) # <<>> =>
       \E k \in EventsOf(i, "write") : iolog[k].data = Append(TextOf(i), "\n")

\* C4: the entries are processed strictly in declared order: the completed
\* entries are 1, 2, ... without gap, each of them is complete, every read and
\* write belongs to the entry that follows the completed ones, and probeTCP
\* returns true only when all entries are completed.
C4_StepsInDeclaredOrder ==
  /\ [](/\ \A i \in 1..Len(stepsDone) : stepsDone[i] = i /\ StepCompleted(i)
        /\ (pc = "tcp_return" /\ ret) => Len(stepsDone) = Len(Steps))
  /\ [][Len(iolog') = Len(iolog) + 1
          => iolog'[Len(iolog')].step = Len(stepsDone) + 1]_vars

\* the four entries of the IRC script ran to the end
C4_Witness ==
  pc = "tcp_return" /\ ret /\ Steps = IRCSteps /\ stepsDone = <<1, 2, 3, 4>>

\* C5: probeTCP returns true iff the connection was opened, the deadline was
\* set and every entry is complete; with no entries, iff the connection was
\* opened and the deadline set.
C5_SuccessIffAllStepsComplete ==
  pc = "tcp_return" =>
    (ret <=> /\ conn = "open"
             /\ deadlineSet
             /\ \A i \in 1..Len(Steps) : StepCompleted(i))

\* a probe failed on the second of two expects after the first was answered
C5_Witness ==
  /\ pc = "tcp_return" /\ ~ret /\ Steps = TwiceSteps /\ stepsDone = <<1>>
  /\ EventsOf(2, "scan") # {}

\* the token that follows the first PING of a line
PingToken(line) ==
  line[Min({p \in 1..(Len(line) - 1) : line[p] = "PING"}) + 1]

\* C6: the IRC script succeeds only if a PING line arrived, a PONG with the
\* token of that line was written afterwards, and a line matching the 001
\* pattern arrived after the PING line, delivered by the connection before the
\* deadline.
C6_IRCSuccessNeedsPongAnd001 ==
  (pc = "tcp_return" /\ ret /\ Steps = IRCSteps) =>
    \E i, j, k \in 1..Len(iolog) :
      /\ i < j /\ i < k
      /\ iolog[i].op = "scan"
      /\ \E p \in 1..(Len(iolog[i].data) - 1) : iolog[i].data[p] = "PING"
      /\ \A h \in 1..(i - 1) :
           iolog[h].op = "scan" => \A p \in 1..(Len(iolog[h].data) - 1) :
                                     iolog[h].data[p] # "PING"
      /\ iolog[j].op = "write"
      /\ iolog[j].data = <<"PONG", PingToken(iolog[i].data), "\n">>
      /\ iolog[k].op = "scan"
      /\ Len(iolog[k].data) >= 2
      /\ iolog[k].data[1] \in ColonTokens /\ iolog[k].data[2] = "001"
      /\ ~iolog[k].late

\* the IRC script succeeded on a PING that was not the first line
C6_Witness ==
  /\ pc = "tcp_return" /\ ret /\ Steps = IRCSteps
  /\ \E i \in 1..Len(iolog) : iolog[i].data = <<"NOTICE", "PING", "b">>

(***************************************************************************)
(* Properties of probeHTTP.                                                *)
(***************************************************************************)
HTTPCfg == module.HTTP

\* the client handed back a response
Received == resp # NoResp

Elems(seq) == {seq[i] : i \in 1..Len(seq)}

\* the claimed status rule, on the set of configured codes
StatusPass ==
  LET V == Elems(HTTPCfg.ValidStatusCodes)
      code == resp.StatusCode
  IN \/ V = {} /\ 200 <= code /\ code < 300
     \/ V # {} /\ code \in V

\* no fail_if_matches pattern matches the body and every fail_if_not_matches
\* pattern matches it
PatternsPass ==
  /\ \A p \in Elems(HTTPCfg.FailIfMatchesRegexp) : ~LineMatches(p, resp.Body)
  /\ \A p \in Elems(HTTPCfg.FailIfNotMatchesRegexp) : LineMatches(p, resp.Body)

NoneMalformed ==
  \A p \in Elems(HTTPCfg.FailIfMatchesRegexp) \cup Elems(HTTPCfg.FailIfNotMatchesRegexp) :
    ~Compile(p).err

TLSPass ==
  /\ resp.TLS => ~HTTPCfg.FailIfSSL
  /\ ~resp.TLS => ~HTTPCfg.FailIfNotSSL

EmittedNamed(name) == {i \in 1..Len(emitted) : emitted[i].Name = name}

\* C7: with no regex and no TLS rule configured, a probe that got a response
\* succeeds iff (V empty and 200 <= s < 300) or (V non-empty and s in V).
C7_StatusRule ==
  ( /\ pc = "http_return" /\ Received
    /\ HTTPCfg.FailIfMatchesRegexp = <<>> /\ HTTPCfg.FailIfNotMatchesRegexp = <<>>
    /\ ~HTTPCfg.FailIfSSL /\ ~HTTPCfg.FailIfNotSSL )
  => (ret <=> StatusPass)

\* a 2xx status outside a non-empty V failed
C7_Witness ==
  /\ pc = "http_return" /\ Received /\ ~ret
  /\ HTTPCfg.ValidStatusCodes = <<200, 404>> /\ resp.StatusCode = 299
  /\ HTTPCfg.FailIfMatchesRegexp = <<>> /\ HTTPCfg.FailIfNotMatchesRegexp = <<>>
  /\ ~HTTPCfg.FailIfSSL /\ ~HTTPCfg.FailIfNotSSL

\* C8 as claimed: once the status check passed, the regex check passes iff no
\* fail_if_matches pattern matches the body and every fail_if_not_matches
\* pattern matches it.
C8_RegexRuleAsClaimed ==
  (pc = "http_return" /\ Received /\ StatusPass) => (regexOK <=> PatternsPass)

\* C8, amended: once the status check passed, the regex check passes iff no
\* configured pattern is malformed, no fail_if_matches pattern matches the
\* body and every fail_if_not_matches pattern matches it; the probe succeeds
\* only if the regex check passes.
C8_RegexRule ==
  (pc = "http_return" /\ Received /\ StatusPass) =>
    /\ regexOK <=> (NoneMalformed /\ PatternsPass)
    /\ ret => regexOK

\* the second of two fail_if_matches patterns matched, the first did not
C8_Witness ==
  /\ pc = "http_return" /\ Received /\ StatusPass /\ ~regexOK
  /\ Len(HTTPCfg.FailIfMatchesRegexp) = 2
  /\ HTTPCfg.FailIfNotMatchesRegexp = <<>>
  /\ ~LineMatches(HTTPCfg.FailIfMatchesRegexp[1], resp.Body)
  /\ LineMatches(HTTPCfg.FailIfMatchesRegexp[2], resp.Body)

\* C9: a probe that got a response succeeds iff the status check, the regex
\* check and the TLS check all pass, and probe_http_ssl is emitted whether or
\* not the status check passed.
C9_AllChecksAndLaterMetrics ==
  (pc = "http_return" /\ Received) =>
    /\ ret <=> (StatusPass /\ NoneMalformed /\ PatternsPass /\ TLSPass)
    /\ EmittedNamed("probe_http_ssl") # {}

\* the status check failed and probe_http_ssl was emitted all the same
C9_Witness ==
  /\ pc = "http_return" /\ Received /\ ~StatusPass /\ TLSPass
  /\ EmittedNamed("probe_http_ssl") # {}

\* C10: a probe that got a response emits exactly one probe_http_ssl, 1 iff
\* the connection was encrypted; encrypted with fail_if_ssl fails; plaintext
\* with fail_if_not_ssl fails with probe_http_ssl = 0 in the output.
C10_SSLMetricAndRules ==
  (pc = "http_return" /\ Received) =>
    /\ Cardinality(EmittedNamed("probe_http_ssl")) = 1
    /\ \A i \in EmittedNamed("probe_http_ssl") :
         emitted[i].FloatValue = (IF resp.TLS THEN 1 * Milli ELSE 0)
    /\ (resp.TLS /\ HTTPCfg.FailIfSSL) => ~ret
    /\ (~resp.TLS /\ HTTPCfg.FailIfNotSSL) => ~ret

\* a plaintext response that passed the other checks failed on fail_if_not_ssl
C10_Witness ==
  /\ pc = "http_return" /\ Received /\ ~ret
  /\ ~resp.TLS /\ HTTPCfg.FailIfNotSSL /\ StatusPass /\ regexOK
  /\ \E i \in EmittedNamed("probe_http_ssl") : emitted[i].FloatValue = 0

\* C11: with redirect following disabled the response evaluated is the redirect
\* itself (a 302 with valid codes {302} and no other rule succeeds); with it
\* enabled the response evaluated is the final one of the chain and
\* probe_http_redirects is the number of hops followed; a chain of more than
\* MaxRedirects hops fails.
C11_RedirectPolicy ==
  (pc = "http_return") =>
    /\ (Received /\ HTTPCfg.NoFollowRedirects /\ served.hops > 0) =>
         /\ resp.StatusCode = StatusFound
         /\ ( /\ HTTPCfg.ValidStatusCodes = <<StatusFound>>
              /\ HTTPCfg.FailIfMatchesRegexp = <<>>
              /\ HTTPCfg.FailIfNotMatchesRegexp = <<>>
              /\ TLSPass ) => ret
    /\ (Received /\ ~HTTPCfg.NoFollowRedirects) =>
         /\ resp = served.final
         /\ \A i \in EmittedNamed("probe_http_redirects") :
              emitted[i].FloatValue = Float(served.hops)
         /\ Cardinality(EmittedNamed("probe_http_redirects")) = 1
    /\ (~HTTPCfg.NoFollowRedirects /\ served.hops > MaxRedirects) =>
         ~Received /\ ~ret

\* an aborted redirect evaluated as a 302 and accepted
C11_Witness ==
  /\ pc = "http_return" /\ Received /\ ret
  /\ HTTPCfg.NoFollowRedirects /\ served.hops = 1
  /\ HTTPCfg.ValidStatusCodes = <<StatusFound>>
  /\ resp.StatusCode = StatusFound /\ served.final.StatusCode = 404

(***************************************************************************)
(* Properties of requests served at once.                                  *)
(***************************************************************************)
CAccepted(r) == reqs[r].pc # "idle" /\ reqs[r].w.code # StatusBadRequest

\* the label that the probe_success line written in r's response stands for
WrittenLabel(r) ==
  IF \E i \in 1..Len(reqs[r].w.body) : reqs[r].w.body[i] = <<"probe_success", Float(1)>>
    THEN "true" ELSE "false"

\* the accepted requests that have gone past one of the three registry calls
PastCall(after, l) ==
  {r \in Reqs : /\ CAccepted(r) /\ reqs[r].pc \in after
                /\ <<reqs[r].moduleName, WrittenLabel(r)>> = l}

\* C12: under every interleaving the registry holds, per label pair, one summary
\* observation, one histogram observation and one counter increment for each
\* accepted request that has made the call, keyed by its module name and the
\* probe_success value it wrote; rejected requests add nothing; no counter
\* ever decreases.
C12_RegistryOncePerProbe ==
  /\ [](\A l \in Labels :
         /\ registry.summary[l] =
              Cardinality(PastCall({"h_histogram", "h_counter", "done"}, l))
         /\ registry.histogram[l] = Cardinality(PastCall({"h_counter", "done"}, l))
         /\ registry.counter[l] = Cardinality(PastCall({"done"}, l)))
  /\ [][\A l \in Labels : registry'.counter[l] >= registry.counter[l]]_vars

\* both requests probed tcp_connect, one succeeded and one failed, and each
\* was counted under its own label
C12_Witness ==
  /\ \A r \in Reqs : reqs[r].pc = "done" /\ CAccepted(r)
  /\ registry.counter[<<"tcp_connect", "true">>] = 1
  /\ registry.counter[<<"tcp_connect", "false">>] = 1

(***************************************************************************)
(* The default module.                                                     *)
(***************************************************************************)
\* C13 as claimed: a request with a target and no module parameter is handled
\* under the name http_2xx, which the README's configuration defines, so it
\* runs a probe and is not rejected.
C13_DefaultModuleIsDocumentedOne ==
  (pc = "done" /\ params.target # "" /\ params.module = "") =>
    /\ moduleName = "http_2xx"
    /\ moduleName \in DOMAIN Config.Modules
    /\ w.code # StatusBadRequest
    /\ probersRun = 1

PastDeadline == deadlineSet /\ expired

NewEvent == Len(iolog') > Len(iolog)
LastEvent == iolog[Len(iolog)]

\* the deadline is set once, before any step, and is not moved afterwards
DeadlineSetOnce ==
  /\ [][(pc \in TCPPCs /\ deadlineSet' # deadlineSet) =>
          /\ pc = "tcp_deadline" /\ deadlineSet'
          /\ iolog = <<>> /\ stepsDone = <<>> /\ qi = 0]_vars
  /\ [][(pc \in TCPPCs /\ expired) => (expired' \/ pc' = "tcp_dial")]_vars

\* when SetDeadline fails the probe returns false and no step has run
DeadlineFailureIsFailure ==
  [](( pc = "tcp_return" /\ conn = "open" /\ ~deadlineSet) =>
       ~ret /\ iolog = <<>> /\ stepsDone = <<>> /\ qi = 0)

\* a write attempted after the instant fails and the probe returns false
LateWriteFails ==
  [][(PastDeadline /\ pc = "tcp_send" /\ send # <<>> /\ pc' # pc) =>
       (pc' = "tcp_return" /\ ~ret' /\ ~NewEvent)]_vars

\* C15 as claimed: the deadline is set once before the first step and never
\* moved; once it has passed every remaining read or write fails and the
\* probe returns false; a failure to set it returns false before any step.
C15_DeadlineAsClaimed ==
  /\ DeadlineSetOnce
  /\ DeadlineFailureIsFailure
  /\ LateWriteFails
  /\ [][(PastDeadline /\ NewEvent) =>
          (LastEvent'.op = "scan" /\ LastEvent'.end = "timeout")]_vars
  /\ [][(PastDeadline /\ pc = "tcp_scan" /\ pc' = "tcp_checkscan") =>
          (serr' # "none")]_vars

\* C15, amended: the deadline is set once before the first step and never
\* moved; once it has passed every remaining read or write on the connection
\* fails, and a step that needs one makes the probe return false, but a line
\* the reader had buffered before the instant is still handed to the step; a
\* failure to set the deadline returns false before any step.
C15_Deadline ==
  /\ DeadlineSetOnce
  /\ DeadlineFailureIsFailure
  /\ LateWriteFails
  /\ [][(PastDeadline /\ NewEvent) =>
          /\ LastEvent'.op = "scan"
          /\ \/ LastEvent'.end = "timeout"
             \/ /\ scanbuf # <<>>
                /\ LastEvent'.data = Head(scanbuf).line
                /\ ~LastEvent'.late]_vars
  /\ [][(PastDeadline /\ pc = "tcp_scan" /\ scanbuf = <<>> /\ pc' = "tcp_checkscan") =>
          (serr' # "none")]_vars
  /\ []((pc = "tcp_return" /\ serr = "timeout") => ~ret)

\* a step was completed, then the deadline passed and the next read timed out
C15_Witness ==
  /\ pc = "tcp_return" /\ ~ret /\ PastDeadline
  /\ Len(stepsDone) >= 1 /\ serr = "timeout"

\* C16 as claimed: the deadline set on the connection is the instant at which
\* it is applied plus the module timeout.
C16_DeadlineFromApplicationAsClaimed ==
  [][(~deadlineSet /\ deadlineSet') => deadline' = now + Timeout]_vars

\* C16, amended: the deadline is the instant just before the dial plus the
\* module timeout and is not changed afterwards, so when it is applied to the
\* connection the time left to the step sequence is the timeout less the time
\* the dial took, never more than the timeout; operations time out exactly
\* when the clock is past it.
C16_DeadlineFromBeforeDial ==
  /\ [][(pc = "tcp_dial" /\ pc' # "tcp_dial") =>
          (deadline' = now + Timeout /\ deadline' - now' = Timeout - (now' - now))]_vars
  /\ [][(pc \in TCPPCs /\ pc' \in TCPPCs \cup {"tcp_return"}) =>
          deadline' = deadline]_vars
  /\ [][(~deadlineSet /\ deadlineSet') => deadline' - now <= Timeout]_vars
  /\ [](pc \in TCPPCs => (expired <=> now > deadline))

\* the dial took time: less than the timeout is left when the steps start
C16_Witness ==
  /\ pc = "tcp_loop" /\ deadlineSet /\ ~expired /\ qi = 1
  /\ deadline - now < Timeout

(***************************************************************************)
(* What probeTCP writes.                                                   *)
(***************************************************************************)
\* the texts of the capture groups of the leftmost match of src in line
GroupTexts(src, line) ==
  LET m == FindSubmatchIndex(Compile(src), line)
  IN [n \in 1..Len(m.idx) |-> line[m.idx[n]]]

\* template with ${1} and ${2} replaced by the texts in groups, and by nothing
\* where there is no such group
RECURSIVE Substituted(_, _)
Substituted(template, groups) ==
  IF template = <<>> THEN <<>>
  ELSE (CASE Head(template) = "${1}" -> IF Len(groups) >= 1 THEN <<groups[1]>> ELSE <<>>
          [] Head(template) = "${2}" -> IF Len(groups) >= 2 THEN <<groups[2]>> ELSE <<>>
          [] OTHER -> <<Head(template)>>)
       \o Substituted(Tail(template), groups)

\* C17: the text written for an entry without expect is its send as it stands,
\* placeholders included; for an entry with expect it is the send with each
\* ${n} replaced by the n-th capture group of the line this entry matched,
\* which is the line scanned just before the write.
C17_SendTextFromOwnMatch ==
  \A k \in 1..Len(iolog) :
    iolog[k].op = "write" =>
      LET i == iolog[k].step IN
      IF Steps[i].Expect = ""
        THEN iolog[k].data = Append(Steps[i].Send, "\n")
        ELSE /\ k > 1
             /\ iolog[k - 1].op = "scan" /\ iolog[k - 1].step = i
             /\ LineMatches(Steps[i].Expect, iolog[k - 1].data)
             /\ iolog[k].data =
                  Append(Substituted(Steps[i].Send,
                                     GroupTexts(Steps[i].Expect, iolog[k - 1].data)), "\n")

\* two entries with the same expect answered two different PING lines, each
\* with the token of its own line
C17_Witness ==
  /\ pc = "tcp_return" /\ ret /\ Steps = TwiceSteps
  /\ \E j, k \in 1..Len(iolog) :
       /\ iolog[j].op = "write" /\ iolog[j].step = 1
       /\ iolog[j].data = <<"PONG", "a", "\n">>
       /\ iolog[k].op = "write" /\ iolog[k].step = 2
       /\ iolog[k].data = <<"PONG", "b", "\n">>

\* C18: an entry writes to the connection exactly when its text is non-empty,
\* and then the text followed by one newline; with an empty text nothing is
\* written and the entry is complete all the same; a write error returns
\* false, the entry is not complete and nothing runs after it.
C18_WriteIffTextNonEmpty ==
  /\ [][(pc = "tcp_send" /\ pc' # pc) =>
          IF send = <<>>
            THEN /\ ~NewEvent
                 /\ stepsDone' = Append(stepsDone, qi) /\ pc' = "tcp_loop"
          ELSE IF NewEvent
            THEN /\ LastEvent'.op = "write" /\ LastEvent'.step = qi
                 /\ Len(iolog') = Len(iolog) + 1
                 /\ LastEvent'.data = send \o <<"\n">>
                 /\ stepsDone' = Append(stepsDone, qi) /\ pc' = "tcp_loop"
          ELSE /\ pc' = "tcp_return" /\ ~ret'
               /\ stepsDone' = stepsDone]_vars
  /\ [][(NewEvent /\ LastEvent'.op = "write") => pc = "tcp_send"]_vars
  /\ [][(pc \in {"tcp_return", "tcp_returned"}) =>
          (iolog' = iolog \/ iolog' = <<>>) /\ (stepsDone' = stepsDone \/ stepsDone' = <<>>)]_vars

\* a template that expanded to nothing wrote nothing and its entry was
\* completed; the next entry wrote its text and a newline
C18_Witness ==
  /\ pc = "tcp_return" /\ ret /\ Steps = EmptyExpansionSteps
  /\ stepsDone = <<1, 2>>
  /\ EventsOf(1, "write") = {}
  /\ \E k \in EventsOf(2, "write") : iolog[k].data = <<"DONE", "\n">>

\* pattern sources that are not regular expressions
MalformedSources == {"("}

\* the entries whose expect is malformed
MalformedSteps == {i \in 1..Len(Steps) : Steps[i].Expect \in MalformedSources}

\* C19: when an entry's expect is malformed no line is read for that entry and
\* neither its send nor a later one is written; the probe returns false at
\* that entry, after the sends of the entries before it have been written.
C19_MalformedExpectFailsAtOnce ==
  \A i \in MalformedSteps :
    /\ \A k \in 1..Len(iolog) : iolog[k].step < i
    /\ \A j \in 1..Len(stepsDone) : stepsDone[j] < i
    /\ (pc = "tcp_return" /\ qi = i) =>
         /\ ~ret
         /\ stepsDone = [j \in 1..(i - 1) |-> j]
         /\ \A j \in 1..(i - 1) :
              (Steps[j].Expect = "" /\ Steps[j].Send # <<>>) =>
                \E k \in EventsOf(j, "write") : iolog[k].data = Steps[j].Send \o <<"\n">>
    /\ pc = "tcp_return" => ~ret

\* the probe stopped at the malformed entry with the send before it written
C19_Witness ==
  /\ pc = "tcp_return" /\ ~ret /\ Steps = BadRegexSteps /\ qi = 2
  /\ Len(iolog) = 1 /\ iolog[1].op = "write" /\ iolog[1].data = <<"HELLO", "\n">>

(***************************************************************************)
(* The connection of probeTCP.                                             *)
(***************************************************************************)
\* how an invocation that has returned came to its end
ExitPath ==
  IF ret THEN "success"
  ELSE IF conn = "none" THEN "connect"
  ELSE IF ~deadlineSet THEN "setdeadline"
  ELSE IF qi \in MalformedSteps THEN "malformed"
  ELSE IF serr \in {"timeout", "error"} THEN "scanerror"
  ELSE IF Steps[qi].Expect # "" /\ ~match.found THEN "nomatch"
  ELSE "write"

\* C20: when probeTCP has returned, on whichever path, the connection it
\* opened is closed; a failed connect left no connection; the connection
\* stays open for as long as the steps run.
C20_ConnectionReleased ==
  /\ pc = "tcp_returned" =>
       /\ conn # "open"
       /\ conn = "none" => (~ret /\ ~deadlineSet /\ qi = 0 /\ iolog = <<>>)
       /\ ExitPath # "connect" => conn = "closed"
  /\ pc \in (TCPPCs \cup {"tcp_return"}) => conn = "open" \/ (pc = "tcp_return" /\ qi = 0)

\* the probe returned on a write error with the connection closed
C20_Witness ==
  /\ pc = "tcp_returned" /\ conn = "closed" /\ ExitPath = "write"
  /\ Len(stepsDone) >= 1

(***************************************************************************)
(* The metric sink.                                                        *)
(***************************************************************************)
\* C21: probeTCP sends nothing into the sink on any path, so the response of
\* a TCP probe is exactly probe_duration_seconds and probe_success.
C21_TCPSendsNoMetric ==
  module.Prober = "tcp" =>
    /\ emitted = <<>>
    /\ pc \in (TCPPCs \cup {"tcp_dial", "tcp_return", "tcp_returned"}) => metrics = <<>>
    /\ pc = "done" =>
         Names(w.body) = <<"probe_duration_seconds", "probe_success">>

\* an IRC probe that succeeded was rendered as the two lines
C21_Witness ==
  /\ pc = "done" /\ moduleName = "irc_banner" /\ success
  /\ Len(w.body) = 2

\* C22: probe_http_actual_content_length is emitted and the regex rules are
\* evaluated iff a response was received and its status check passed; after
\* a failed status check the body is not evaluated and the metric is absent;
\* without a response none of probe_http_status_code,
\* probe_http_content_length, probe_http_redirects is emitted.
C22_BodyStageIffStatusPassed ==
  /\ pc = "http_body" => (Received /\ StatusPass)
  /\ pc = "http_return" =>
       /\ EmittedNamed("probe_http_actual_content_length") # {}
            <=> (Received /\ StatusPass)
       /\ (Received /\ StatusPass) => (regexOK <=> (NoneMalformed /\ PatternsPass))
       /\ ~(Received /\ StatusPass) => regexOK
       /\ ~Received =>
            /\ EmittedNamed("probe_http_status_code") = {}
            /\ EmittedNamed("probe_http_content_length") = {}
            /\ EmittedNamed("probe_http_redirects") = {}
            /\ emitted = <<>>
       /\ Received =>
            /\ EmittedNamed("probe_http_status_code") # {}
            /\ EmittedNamed("probe_http_content_length") # {}
            /\ EmittedNamed("probe_http_redirects") # {}

\* the status check failed on a body that the regex rules would have failed
\* too: the body stage was passed over
C22_Witness ==
  /\ pc = "http_return" /\ Received /\ ~StatusPass
  /\ ~PatternsPass /\ regexOK
  /\ EmittedNamed("probe_http_actual_content_length") = {}

\* the line of a metric
Line(m) == <<m.Name, m.FloatValue>>
Lines(ms) == [i \in 1..Len(ms) |-> Line(ms[i])]

\* the metrics the handler itself has sent so far
HandlerSent ==
  LET dur == [Name |-> "probe_duration_seconds", FloatValue |-> latency \div Milli]
      suc == [Name |-> "probe_success", FloatValue |-> IF success THEN Milli ELSE 0]
  IN IF pc = "h_duration" THEN <<>>
     ELSE IF pc = "h_success" THEN <<dur>>
     ELSE <<dur, suc>>

\* C23: the lines written are the metrics sent into the sink, one line each,
\* in the order of the sends: at every moment the lines written followed by
\* the metrics still in the sink are all the metrics sent, and when the
\* handler is done the sink is empty; a name sent several times is written
\* that many times.
C23_LinesAreMetricsInOrder ==
  /\ pc \in {"h_duration", "h_success", "h_close", "h_drain", "h_summary",
             "h_histogram", "h_counter", "done"} =>
       w.body \o Lines(metrics) = Lines(emitted \o HandlerSent)
  /\ pc \in {"h_summary", "h_histogram", "h_counter", "done"} => metrics = <<>>
  /\ pc \in {"h_duration", "h_success", "h_close"} => w.body = <<>>

\* one name sent twice with another between: three lines in that order, then
\* the handler's two
C23_Witness ==
  /\ pc = "done"
  /\ Len(w.body) = 5
  /\ w.body[1] = <<"probe_a", 2 * Milli>>
  /\ w.body[2] = <<"probe_b", 1 * Milli>>
  /\ w.body[3] = <<"probe_a", 1 * Milli>>

\* C24: under every interleaving each request has a sink of its own, empty
\* when its prober starts: the lines of its response followed by what its
\* sink still holds are the metrics its own prober and handler sent, a TCP
\* probe's response holds no metric of an HTTP probe served at the same time,
\* a step of one request leaves the frame of every other request alone, and
\* nothing but the registry is shared.
C24_SinkPerRequest ==
  /\ [](\A r \in Reqs :
          /\ reqs[r].w.body \o Lines(reqs[r].metrics) = Lines(reqs[r].sent)
          /\ reqs[r].pc = "probing" => reqs[r].metrics = <<>>
          /\ (reqs[r].pc = "done" /\ CAccepted(r)) =>
               /\ reqs[r].metrics = <<>>
               /\ reqs[r].moduleName = "tcp_connect" =>
                    Names(reqs[r].w.body) = <<"probe_duration_seconds", "probe_success">>)
  /\ [][\E r \in Reqs : \A q \in Reqs \ {r} : reqs'[q] = reqs[q]]_vars
  /\ [][single' = single]_vars

\* an HTTP probe and a TCP probe served at once, each with its own lines
C24_Witness ==
  /\ \A r \in Reqs : reqs[r].pc = "done" /\ CAccepted(r)
  /\ reqs["r1"].moduleName = "http_2xx" /\ Len(reqs["r1"].w.body) = 7
  /\ reqs["r2"].moduleName = "tcp_connect" /\ Len(reqs["r2"].w.body) = 2

(***************************************************************************)
(* The capacity of the sink and the termination of a request.              *)
(***************************************************************************)
\* the exporter under the Go scheduler: a goroutine that can run does run
SpecLive == Spec /\ WF_vars(Next)

\* the positions of probeHandler between the prober's return and the close
HandlerSendPCs == {"h_duration", "h_success"}

\* the positions after the range loop over the sink has ended
RenderedPCs == {"h_summary", "h_histogram", "h_counter", "done"}

\* C25: the sink holds 30 metrics and a prober's metrics plus the two of the
\* handler never exceed that, so no send waits for room, the sink is closed
\* and drained only after the prober and the handler have sent, and every
\* request that passed validation renders its page and terminates
C25_SinkNeverFills ==
  /\ [](/\ Len(emitted) + 2 <= 30
        /\ Len(metrics) <= 30
        /\ pc \in HandlerSendPCs => Len(metrics) < 30 /\ ~chClosed
        /\ (pc # "idle" /\ pc # "done" /\ Accepted) => ENABLED Next
        /\ chClosed => pc \in ({"h_drain"} \cup RenderedPCs)
        /\ w.body # <<>> => chClosed
        /\ (pc \in RenderedPCs /\ Accepted) =>
             Len(w.body) = Len(emitted) + 2 /\ metrics = <<>>)
  /\ ((pc # "idle" /\ Accepted) ~> (pc = "done" /\ chClosed /\ w.code = 0))

C25_Witness ==
  /\ pc = "done" /\ Accepted /\ chClosed /\ ChanCap = 30
  /\ Len(emitted) = 6 /\ Len(w.body) = 8

(***************************************************************************)
(* The line reader shared by the steps of probeTCP.                        *)
(***************************************************************************)
\* the tokens the reader handed to the scan loops, in the order of the stream
ScanIdx == {k \in 1..Len(iolog) : iolog[k].op = "scan"}

\* the token k satisfies the expect of entry j
Satisfies(k, j) ==
  /\ j \in 1..Len(Steps)
  /\ Steps[j].Expect # ""
  /\ LineMatches(Steps[j].Expect, iolog[k].data)

\* the entries that ran to their end
Completed == {stepsDone[n] : n \in 1..Len(stepsDone)}

\* the expect entries before entry i
ExpectsBefore(i) == {j \in 1..(i - 1) : Steps[j].Expect # ""}

\* C26: one reader serves all steps and every line it hands out is consumed:
\* a later expect step examines only lines behind the line that matched the
\* previous expect step, a line that would satisfy a later step but is read
\* by an earlier one is gone, and the same expect twice in a row needs two
\* distinct matching lines
C26_SharedReaderConsumes ==
  /\ [](/\ Cardinality(ScanIdx) + Len(scanbuf) = nlines
        /\ \A k \in ScanIdx :
             /\ Steps[iolog[k].step].Expect # ""
             /\ \A h \in ScanIdx : h < k => iolog[h].step <= iolog[k].step
             /\ \A h \in ScanIdx :
                  (h < k /\ iolog[h].step = iolog[k].step) => ~Satisfies(h, iolog[h].step)
             /\ \A j \in ExpectsBefore(iolog[k].step) :
                  \E h \in Hits(j) : h < k
             /\ \A j \in (iolog[k].step + 1)..Len(Steps) :
                  (Satisfies(k, j) /\ j \in Completed) =>
                    \E h \in Hits(j) : h > k
        /\ \A j \in Completed :
             Steps[j].Expect # "" =>
               /\ Hits(j) # {}
               /\ nlines >= Cardinality(ExpectsBefore(j)) + 1)
  /\ [][(pc = "tcp_scan" /\ NewEvent) =>
         /\ LastEvent' = ScanEvent(tok', LastEvent'.late, LastEvent'.end)
         /\ IF scanbuf # <<>>
              THEN /\ tok' = Head(scanbuf).line
                   /\ scanbuf' = Tail(scanbuf)
                   /\ nlines' = nlines
              ELSE /\ nlines' > nlines
                   /\ Len(scanbuf') = nlines' - nlines - 1]_vars

\* a line that satisfies the last IRC step was read while the PING was awaited;
\* the PING came and was answered, nothing else followed and the probe failed
C26_Witness ==
  /\ Steps = IRCSteps
  /\ pc = "tcp_returned" /\ ~ret
  /\ stepsDone = <<1, 2, 3>>
  /\ nlines = 2
  /\ \E k \in ScanIdx :
       /\ iolog[k].step = 3 /\ Satisfies(k, 4) /\ ~Satisfies(k, 3)
       /\ \E h \in Hits(3) : h > k
  /\ Hits(4) = {}
====
